---- MODULE Spec2Model ----
(***************************************************************************)
(* Model of src/engine/astrology.js: the AstrologyEngine aspect            *)
(* classifier, house assignment and synastry (compatibility) scoring, and  *)
(* the parts of the SwissEphemeris reference library they call.            *)
(*                                                                         *)
(* Numbers.  The code works on IEEE doubles.  The model works on exact     *)
(* grids:                                                                  *)
(*   - an angle is an integer count of 1/Unit degree (Unit = 8 makes every *)
(*     grid angle a dyadic rational, so the doubles of the code hold the   *)
(*     same values exactly and Number.prototype.toFixed rounds them as     *)
(*     modelled);                                                          *)
(*   - an aspect strength is an integer count of 1/StrengthScale;          *)
(*   - a synastry score is an integer count of 1/ScoreScale, the combined  *)
(*     score of 1/(10 * ScoreScale).                                       *)
(***************************************************************************)
EXTENDS Integers, Sequences, FiniteSets, TLC

VARIABLES
    pos1, pos2,          \* arguments of findAspect / calculateAspectStrength
    aspect,              \* value returned by findAspect(pos1, pos2)
    aspectStrength,      \* value returned by calculateAspectStrength(pos1, pos2)
    tjd_ut, geo,         \* arguments of swe_houses: Julian day, {lat, lon}
    houseSystem,         \* and the house system
    houseResult,         \* value returned (or error thrown) by swe_houses
    planetPosition,      \* first argument of getPlanetHouse
    planetHouse,         \* value returned by getPlanetHouse(planetPosition, houses)
    user1, user2,        \* arguments of calculateCompatibility
    pc,                  \* where the calculateCompatibility call stands
    frame,               \* its locals computed before the await
    geocodeCache,        \* this.geocodeCache: location -> last geocoding result
    compat,              \* the object calculateCompatibility resolves with
    jdCall,              \* arguments of swe_julday: year, month, day, hour, calendar
    julianDay,           \* what swe_julday returned or threw for them
    dateCall,            \* arguments of dateToJulianDay: dateStr, timeStr
    dateJd,              \* what dateToJulianDay returned or threw for them
    degrees,             \* argument of degreesToSign
    signResult,          \* what degreesToSign returned for it
    swissLoaded,         \* typeof SwissEphemeris !== 'undefined'
    geocoderLoaded,      \* typeof BrowserGeocoder !== 'undefined'
    sweph,               \* this.sweph: null or the SwissEphemeris instance
    geocoder,            \* this.geocoder: null or the BrowserGeocoder instance
    initialized,         \* this.initialized
    lastCall,            \* the last call made on the engine or on this.sweph
    thrown,              \* message of the error that call threw, "" for none
    calcResult,          \* what the last swe_calc_ut call returned
    calls                \* the calculateNatalChart / calculateCompatibility calls in flight

aspectVars == <<pos1, pos2, aspect, aspectStrength>>
houseVars == <<tjd_ut, geo, houseSystem, houseResult, planetPosition, planetHouse>>
compatVars == <<user1, user2, pc, frame, geocodeCache, compat>>
juldayVars == <<jdCall, julianDay, dateCall, dateJd>>
signVars == <<degrees, signResult>>
engineVars == <<swissLoaded, geocoderLoaded, sweph, geocoder, initialized, lastCall,
                thrown, calcResult>>
vars == <<aspectVars, houseVars, compatVars, juldayVars, signVars, engineVars, calls>>

-----------------------------------------------------------------------------
(* Bounds of the model *)

\* Grid resolution: angles are counted in 1/Unit degree.
Unit == 8

\* Number of evenly spaced first arguments tried against every second argument.
NumAnchors == 8

\* Number of geographic longitudes tried by the house computation.
NumLonSamples == 13

\* Number of Julian days tried by the house computation.
NumJdSamples == 3

\* Number of seed longitudes of the sample charts.
NumSeeds == 4

Circle == 360 * Unit
Lons == 0 .. (Circle - 1)
Anchors == { k * (Circle \div NumAnchors) : k \in 0 .. (NumAnchors - 1) }

\* Strengths are multiples of 1/(10 * 24 * Unit): base strengths are tenths
\* and every orb (8, 6, 3 degrees) divides 24.
OrbLcm == 8 * 3
StrengthScale == 10 * OrbLcm * Unit

\* Scores are means of strengths over 2, 256 or 144 pairings, or a count over
\* 6 placements: multiples of 1/(StrengthScale * 2304).
PairLcm == 256 * 9
ScoreScale == StrengthScale * PairLcm

-----------------------------------------------------------------------------
(* JavaScript helpers *)

Abs(x) == IF x < 0 THEN -x ELSE x
Min(a, b) == IF a <= b THEN a ELSE b

\* JavaScript values that may be a number or a string carry their type.
JsNumber(n) == [type |-> "number", num |-> n, text |-> ""]
JsString(s) == [type |-> "string", num |-> 0, text |-> s]

\* Number.prototype.toFixed(2) of the non-negative value d/Unit degrees:
\* the nearest count of hundredths (the larger one on a tie), written with two
\* fraction digits.
Hundredths(d) == (d * 200 + Unit) \div (2 * Unit)
TwoDigits(n) == IF n < 10 THEN "0" \o ToString(n) ELSE ToString(n)
ToFixed2(d) == ToString(Hundredths(d) \div 100) \o "." \o TwoDigits(Hundredths(d) % 100)

-----------------------------------------------------------------------------
(* Aspect classifier: findAspect and calculateAspectStrength *)

\* aspects table of findAspect; strength in tenths.
FindAspectTable ==
    << [name |-> "Conjunction",    angle |-> 0,   orb |-> 8, strength |-> 10],
       [name |-> "Semisextile",    angle |-> 30,  orb |-> 3, strength |-> 3],
       [name |-> "Sextile",        angle |-> 60,  orb |-> 6, strength |-> 8],
       [name |-> "Square",         angle |-> 90,  orb |-> 8, strength |-> 6],
       [name |-> "Trine",          angle |-> 120, orb |-> 8, strength |-> 9],
       [name |-> "Sesquiquadrate", angle |-> 135, orb |-> 3, strength |-> 4],
       [name |-> "Quincunx",       angle |-> 150, orb |-> 3, strength |-> 3],
       [name |-> "Opposition",     angle |-> 180, orb |-> 8, strength |-> 7] >>

\* aspects table of calculateAspectStrength ("Major aspects with orbs").
MajorAspectTable ==
    << [angle |-> 0,   orb |-> 8, strength |-> 10],
       [angle |-> 60,  orb |-> 6, strength |-> 8],
       [angle |-> 90,  orb |-> 8, strength |-> 6],
       [angle |-> 120, orb |-> 8, strength |-> 9],
       [angle |-> 180, orb |-> 8, strength |-> 7] >>

\* const diff = Math.abs(pos1 - pos2); const angle = Math.min(diff, 360 - diff);
FoldedAngle(p1, p2) == Min(Abs(p1 - p2), Circle - Abs(p1 - p2))

\* aspectDiff = Math.abs(angle - aspect.angle)
AspectDiff(angle, a) == Abs(angle - a.angle * Unit)

\* aspect.strength * (1 - aspectDiff / aspect.orb), in 1/StrengthScale.
TaperedStrength(a, aspectDiff) ==
    a.strength * (a.orb * Unit - aspectDiff) * (OrbLcm \div a.orb)

\* The for-of loop over a table: index of the first entry from i on with
\* aspectDiff <= aspect.orb, 0 when the loop falls through.
RECURSIVE FirstInOrb(_, _, _)
FirstInOrb(table, angle, i) ==
    IF i > Len(table) THEN 0
    ELSE IF AspectDiff(angle, table[i]) <= table[i].orb * Unit THEN i
    ELSE FirstInOrb(table, angle, i + 1)

NoAspect == [name |-> "None", orb |-> JsNumber(0), strength |-> 0]

\* The object findAspect returns for entry i of its table.
AspectAt(angle, i) ==
    [name |-> FindAspectTable[i].name,
     orb |-> JsString(ToFixed2(AspectDiff(angle, FindAspectTable[i]))),
     strength |-> TaperedStrength(FindAspectTable[i], AspectDiff(angle, FindAspectTable[i]))]

\* Mutant: the signed difference is used where the code takes Math.abs.
FindAspect_NoAbs(p1, p2) ==
    LET angle == Min(p1 - p2, Circle - (p1 - p2))
        i == FirstInOrb(FindAspectTable, angle, 1)
    IN  IF i = 0 THEN NoAspect ELSE AspectAt(angle, i)

\* Mutant: the orb is formatted with one fraction digit, toFixed(1).
FindAspect_Fixed1(p1, p2) ==
    LET angle == FoldedAngle(p1, p2)
        i == FirstInOrb(FindAspectTable, angle, 1)
        d == AspectDiff(angle, FindAspectTable[i])
        tenths == (d * 20 + Unit) \div (2 * Unit)
    IN  IF i = 0 THEN NoAspect
        ELSE [AspectAt(angle, i) EXCEPT
                !.orb = JsString(ToString(tenths \div 10) \o "." \o ToString(tenths % 10))]

\* Mutant: exactness is aspectDiff / orb, not 1 - aspectDiff / orb.
FindAspect_InvertedExactness(p1, p2) ==
    LET angle == FoldedAngle(p1, p2)
        i == FirstInOrb(FindAspectTable, angle, 1)
    IN  IF i = 0 THEN NoAspect
        ELSE [AspectAt(angle, i) EXCEPT
                !.strength = FindAspectTable[i].strength
                             * AspectDiff(angle, FindAspectTable[i])
                             * (OrbLcm \div FindAspectTable[i].orb)]

\* Mutant: the orb test is aspectDiff < aspect.orb, the boundary excluded.
FindAspect_StrictOrb(p1, p2) ==
    LET angle == FoldedAngle(p1, p2)
        i == FirstInOrb(FindAspectTable, angle, 1)
    IN  IF i = 0 \/ AspectDiff(angle, FindAspectTable[i]) = FindAspectTable[i].orb * Unit
        THEN NoAspect
        ELSE AspectAt(angle, i)

FindAspect(p1, p2) ==
    LET angle == FoldedAngle(p1, p2)
        i == FirstInOrb(FindAspectTable, angle, 1)
    IN  IF i = 0 THEN NoAspect ELSE AspectAt(angle, i)

CalculateAspectStrength(p1, p2) ==
    LET angle == FoldedAngle(p1, p2)
        i == FirstInOrb(MajorAspectTable, angle, 1)
    IN  IF i = 0 THEN 0
        ELSE TaperedStrength(MajorAspectTable[i], AspectDiff(angle, MajorAspectTable[i]))

-----------------------------------------------------------------------------
(* SwissEphemeris: sidereal time and houses.  A Julian day is an integer   *)
(* count of 1/(24 * Unit) day, so that one grid step of time turns the sky *)
(* by about 15 grid steps of angle.                                        *)

JdPerDay == 24 * Unit
J2000 == 2451545 * JdPerDay

\* JavaScript's %: the remainder takes the sign of the dividend.
JsRem(x, n) == IF x >= 0 THEN x % n ELSE -((-x) % n)

\* gmst = 280.46061837 + 360.98564736629 * (jd - 2451545.0) + 0.000387933*t*t,
\* in grid steps of angle, rounded down to the grid.  One grid step of time is
\* 360.98564736629 / 24 = 15.04107 grid steps of angle; the t*t term stays below
\* one grid step for the centuries around J2000 and is dropped.
Gmst(jd) ==
    (28046 * Unit) \div 100 + 15 * (jd - J2000) + (4107 * (jd - J2000)) \div 100000

\* calculateLocalSiderealTime of SwissEphemeris; the result, in hours, is
\* counted in 1/(15 * Unit) hour, so that lst * 15 is a grid angle.
\*   const lst = (gmst + longitude) / 15.0; return ((lst % 24) + 24) % 24;
CalculateLocalSiderealTime(jd, longitude) ==
    JsRem(JsRem(Gmst(jd) + longitude, Circle) + Circle, Circle)

HouseSystems == {"P", "K", "E"}

\* houses.push((lst * 15 + i * 30) % 360) for i = 0..11; houses[i] of the
\* code is houses[i + 1] here.
HouseCusps(lst) == [i \in 1 .. 12 |-> JsRem(lst + (i - 1) * 30 * Unit, Circle)]

\* Mutant: the Koch system is given cusps of its own, shifted by the latitude.
SweHouses_KochByLatitude(jd, lat, lon, hsys) ==
    IF Abs(lat) > 90 * Unit \/ Abs(lon) > 180 * Unit
    THEN [error |-> "Latitude or longitude out of range", houses |-> <<>>,
          ascendant |-> 0, mc |-> 0]
    ELSE IF hsys \notin HouseSystems
    THEN [error |-> "Invalid house system", houses |-> <<>>, ascendant |-> 0, mc |-> 0]
    ELSE LET lst == CalculateLocalSiderealTime(jd, lon)
             houses == HouseCusps(IF hsys = "K" THEN (lst + Abs(lat)) % Circle ELSE lst)
         IN  [error |-> "", houses |-> houses, ascendant |-> houses[1], mc |-> houses[10]]

\* swe_houses: the thrown error (error # "") or {houses, ascendant, mc}.
SweHouses(jd, lat, lon, hsys) ==
    IF Abs(lat) > 90 * Unit \/ Abs(lon) > 180 * Unit
    THEN [error |-> "Latitude or longitude out of range", houses |-> <<>>,
          ascendant |-> 0, mc |-> 0]
    ELSE IF hsys \notin HouseSystems
    THEN [error |-> "Invalid house system", houses |-> <<>>, ascendant |-> 0, mc |-> 0]
    ELSE LET houses == HouseCusps(CalculateLocalSiderealTime(jd, lon))
         IN  [error |-> "", houses |-> houses, ascendant |-> houses[1], mc |-> houses[10]]

SE_HSYS_PLACIDUS == "P"

-----------------------------------------------------------------------------
(* AstrologyEngine: house of a position *)

\* The body of the for loop of getPlanetHouse for one house (counted from 1).
InHouse(position, houses, house) ==
    LET currentHouse == houses[house]
        nextHouse == houses[IF house = 12 THEN 1 ELSE house + 1]
    IN  IF currentHouse <= nextHouse
        THEN position >= currentHouse /\ position < nextHouse
        ELSE position >= currentHouse \/ position < nextHouse

\* The loop of getPlanetHouse: the first house from `house` on that holds the
\* position, 0 when the loop falls through to the final return.
RECURSIVE ScanHouses(_, _, _)
ScanHouses(position, houses, house) ==
    IF house > 12 THEN 0
    ELSE IF InHouse(position, houses, house) THEN house
    ELSE ScanHouses(position, houses, house + 1)

\* Mutant: the wrapping arc is tested like the others, with /\.
GetPlanetHouse_NoWrap(position, houses) ==
    LET hit == { h \in 1 .. 12 :
                   /\ position >= houses[h]
                   /\ position < houses[IF h = 12 THEN 1 ELSE h + 1] }
    IN  IF hit = {} THEN 1 ELSE CHOOSE h \in hit : \A g \in hit : h <= g

GetPlanetHouse(position, houses) ==
    IF ScanHouses(position, houses, 1) = 0 THEN 1 ELSE ScanHouses(position, houses, 1)

-----------------------------------------------------------------------------
(* SwissEphemeris: Julian day *)

SE_GREG_CAL == 1
SE_JUL_CAL == 0

JdError == -1

\* swe_julday for integer year, month, day and an hour counted in 1/Unit
\* hour; JdError when it throws.
SweJulday(year, month, day, hour, calendar) ==
    IF month < 1 \/ month > 12 \/ day < 1 \/ day > 31 \/ hour < 0 \/ hour >= 24 * Unit
    THEN JdError
    ELSE LET a == (14 - month) \div 12
             y == year + 4800 - a
             m == month + 12 * a - 3
             jd == day + (153 * m + 2) \div 5 + 365 * y + y \div 4
         IN  IF calendar = SE_GREG_CAL
             THEN (jd - y \div 100 + y \div 400 - 32045) * JdPerDay + (hour - 12 * Unit)
             ELSE IF calendar = SE_JUL_CAL
             THEN (jd - 32083) * JdPerDay + (hour - 12 * Unit)
             ELSE JdError

\* dateToJulianDay: a date string is modelled by the fields new Date(...) reads
\* from it, a time string by its hours and minutes (no seconds).
\*   hour = getHours() + getMinutes() / 60.0 + getSeconds() / 3600.0
DateToJulianDay(dateStr, timeStr) ==
    SweJulday(dateStr.year, dateStr.month, dateStr.day,
              timeStr.hours * Unit + (timeStr.minutes * Unit) \div 60,
              SE_GREG_CAL)

\* calculateHouses: swe_houses(jd, coords.lat, coords.lon, SE_HSYS_PLACIDUS).houses;
\* the empty tuple stands for a thrown error.
CalculateHouses(jd, coords) ==
    IF jd = JdError THEN <<>>
    ELSE SweHouses(jd, coords.lat, coords.lon, SE_HSYS_PLACIDUS).houses

-----------------------------------------------------------------------------
(* SwissEphemeris: swe_julday on JavaScript numbers.  An argument is a     *)
(* finite number, counted in 1/Unit, or NaN.                               *)

Finite(n) == [nan |-> FALSE, n |-> n]
NaN == [nan |-> TRUE, n |-> 0]

\* Number.isInteger(x)
IsInteger(x) == ~x.nan /\ x.n % Unit = 0

\* x < c, x > c and x >= c for a whole number c: false when x is NaN.
Less(x, c) == ~x.nan /\ x.n < c * Unit
Greater(x, c) == ~x.nan /\ x.n > c * Unit
GreaterEq(x, c) == ~x.nan /\ x.n >= c * Unit

\* The condition of the if statement at the head of swe_julday.
InvalidDateOrTime(year, month, day, hour) ==
    \/ ~IsInteger(year)
    \/ ~IsInteger(month)
    \/ ~IsInteger(day)
    \/ Less(month, 1)
    \/ Greater(month, 12)
    \/ Less(day, 1)
    \/ Greater(day, 31)
    \/ Less(hour, 0)
    \/ GreaterEq(hour, 24)

\* What a call of swe_julday ends with: an error thrown (error # ""), the
\* number NaN, or a Julian day counted in 1/JdPerDay day.
JuldayThrew(message) == [error |-> message, nan |-> FALSE, value |-> 0]
JuldayNaN == [error |-> "", nan |-> TRUE, value |-> 0]
JuldayReturned(value) == [error |-> "", nan |-> FALSE, value |-> value]

\* Mutant: the hour is tested with !(hour >= 0 && hour < 24), which rejects NaN.
SweJuldayOfNumbers_RejectNaN(year, month, day, hour, calendar) ==
    IF InvalidDateOrTime(year, month, day, hour) \/ hour.nan
    THEN JuldayThrew("Invalid date or time parameters")
    ELSE IF calendar \notin {SE_GREG_CAL, SE_JUL_CAL}
    THEN JuldayThrew("Invalid calendar type")
    ELSE JuldayReturned(SweJulday(year.n \div Unit, month.n \div Unit, day.n \div Unit,
                                  hour.n, calendar))

\* Mutant: the noon offset is left out, jd + hour / 24.0.
SweJuldayOfNumbers_NoNoonOffset(year, month, day, hour, calendar) ==
    IF InvalidDateOrTime(year, month, day, hour)
    THEN JuldayThrew("Invalid date or time parameters")
    ELSE IF calendar \notin {SE_GREG_CAL, SE_JUL_CAL}
    THEN JuldayThrew("Invalid calendar type")
    ELSE IF hour.nan THEN JuldayNaN
    ELSE JuldayReturned(SweJulday(year.n \div Unit, month.n \div Unit, day.n \div Unit,
                                  hour.n, calendar) + 12 * Unit)

\* Mutant: the day is clamped to 30, Math.min(day, 30).
SweJuldayOfNumbers_ClampDay(year, month, day, hour, calendar) ==
    IF InvalidDateOrTime(year, month, day, hour)
    THEN JuldayThrew("Invalid date or time parameters")
    ELSE IF calendar \notin {SE_GREG_CAL, SE_JUL_CAL}
    THEN JuldayThrew("Invalid calendar type")
    ELSE IF hour.nan THEN JuldayNaN
    ELSE JuldayReturned(SweJulday(year.n \div Unit, month.n \div Unit,
                                  Min(day.n \div Unit, 30), hour.n, calendar))

\* swe_julday(year, month, day, hour, calendar) for any numbers: the check at
\* its head, then the computation of SweJulday.  A NaN hour passes the check
\* (hour < 0 and hour >= 24 are both false) and makes the result NaN.
SweJuldayOfNumbers(year, month, day, hour, calendar) ==
    IF InvalidDateOrTime(year, month, day, hour)
    THEN JuldayThrew("Invalid date or time parameters")
    ELSE IF calendar \notin {SE_GREG_CAL, SE_JUL_CAL}
    THEN JuldayThrew("Invalid calendar type")
    ELSE IF hour.nan THEN JuldayNaN
    ELSE JuldayReturned(SweJulday(year.n \div Unit, month.n \div Unit, day.n \div Unit,
                                  hour.n, calendar))

-----------------------------------------------------------------------------
(* Normalisation of a longitude, and degreesToSign *)

\* Mutant: a single remainder, x % 360.
Normalize_SingleRemainder(x, full) == JsRem(x, full)

\* ((x % 360) + 360) % 360, for x counted in a unit of which 360 degrees
\* hold `full`.
Normalize(x, full) == JsRem(JsRem(x, full) + full, full)

ZODIAC_SIGNS ==
    << "Aries", "Taurus", "Gemini", "Cancer", "Leo", "Virgo",
       "Libra", "Scorpio", "Sagittarius", "Capricorn", "Aquarius", "Pisces" >>

\* degreesToSign: ZODIAC_SIGNS[signIndex] of the code is ZODIAC_SIGNS[signIndex + 1]
\* here.
\*   signIndex = Math.floor(normalizedDegrees / 30) % 12
\*   degreesInSign = Math.floor(normalizedDegrees % 30)
\*   minutes = Math.floor((normalizedDegrees % 1) * 60)
DegreesToSign(x) ==
    LET normalizedDegrees == Normalize(x, Circle)
        signIndex == JsRem(normalizedDegrees \div (30 * Unit), 12)
    IN  [sign |-> IF signIndex + 1 \in DOMAIN ZODIAC_SIGNS
                  THEN ZODIAC_SIGNS[signIndex + 1]
                  ELSE "undefined",
         degreesInSign |-> JsRem(normalizedDegrees, 30 * Unit) \div Unit,
         minutes |-> (JsRem(normalizedDegrees, Unit) * 60) \div Unit]

-----------------------------------------------------------------------------
(* SwissEphemeris: positions.  A longitude of swe_calc_ut is counted in    *)
(* 1/1000 degree, the resolution of its orbital elements.                  *)

SE_SUN == 0
SE_MOON == 1
SE_MERCURY == 2
SE_VENUS == 3
SE_MARS == 4
SE_JUPITER == 5
SE_SATURN == 6
SE_URANUS == 7
SE_NEPTUNE == 8
SE_PLUTO == 9
SE_TRUE_NODE == 11
SE_CHIRON == 15

SEFLG_SWIEPH == 2
SEFLG_SIDEREAL == 64

SE_SIDM_FAGAN_BRADLEY == 0
SE_SIDM_LAHIRI == 1

\* 360 degrees in 1/1000 degree.
Circle1000 == 360 * 1000

\* orbitalElements of swe_calc_ut: L and M in 1/1000 degree.
OrbitalElements ==
    (SE_SUN :> [L |-> 280460, M |-> 36000771]) @@
    (SE_MOON :> [L |-> 218316, M |-> 481267881]) @@
    (SE_MERCURY :> [L |-> 252250, M |-> 149472674]) @@
    (SE_VENUS :> [L |-> 181979, M |-> 58517816]) @@
    (SE_MARS :> [L |-> 355433, M |-> 19140299]) @@
    (SE_JUPITER :> [L |-> 34351, M |-> 3034906]) @@
    (SE_SATURN :> [L |-> 50077, M |-> 1222114]) @@
    (SE_URANUS :> [L |-> 314055, M |-> 428479]) @@
    (SE_NEPTUNE :> [L |-> 304348, M |-> 218486]) @@
    (SE_PLUTO :> [L |-> 238958, M |-> 145209]) @@
    (SE_TRUE_NODE :> [L |-> 125045, M |-> -1934136]) @@
    (SE_CHIRON :> [L |-> 207224, M |-> 1364681])

\* a * b = q * c + r with 0 <= r < c, for 0 <= a < c and b >= 0, worked out two
\* decimal digits of b at a time so that no intermediate value leaves 32 bits.
RECURSIVE LongDivision(_, _, _)
LongDivision(a, b, c) ==
    IF b = 0 THEN [q |-> 0, r |-> 0]
    ELSE LET high == LongDivision(a, b \div 100, c)
             t == high.r * 100 + a * (b % 100)
         IN  [q |-> high.q * 100 + t \div c, r |-> t % c]

\* The product a * b / c of the code's doubles, rounded toward zero to a whole
\* count of the unit of a.
MulDiv(a, b, c) ==
    LET magnitude == (Abs(a) \div c) * Abs(b) + LongDivision(Abs(a) % c, Abs(b), c).q
    IN  IF (a < 0) = (b < 0) THEN magnitude ELSE -magnitude

\* flags & this.SEFLG_SIDEREAL
HasFlag(flags, flag) == (flags \div flag) % 2 = 1

\* L + M * T with T = (tjd_ut - 2451545.0) / 36525.0
MeanLongitude(tjd, planet) ==
    OrbitalElements[planet].L
      + MulDiv(OrbitalElements[planet].M, tjd - J2000, 36525 * JdPerDay)

\* Mutant: the ayanamsa is 24.9 in either mode.
Ayanamsa_AlwaysFaganBradley(siderealMode) == 24900

\* this.siderealMode === this.SE_SIDM_FAGAN_BRADLEY ? 24.9 : 23.8
Ayanamsa(siderealMode) ==
    IF siderealMode = SE_SIDM_FAGAN_BRADLEY THEN 24900 ELSE 23800

\* swe_calc_ut on an instance whose siderealMode is given: the error thrown
\* (error # "") or the longitude returned.
SweCalcUt(tjd, planet, flags, siderealMode) ==
    IF planet < 0
    THEN [error |-> "Invalid planet identifier", longitude |-> 0]
    ELSE IF planet \notin DOMAIN OrbitalElements
    THEN [error |-> "Unsupported celestial body", longitude |-> 0]
    ELSE [error |-> "",
          longitude |->
              Normalize(IF HasFlag(flags, SEFLG_SIDEREAL)
                        THEN MeanLongitude(tjd, planet) - Ayanamsa(siderealMode)
                        ELSE MeanLongitude(tjd, planet),
                        Circle1000)]

\* swe_set_sid_mode on an instance: the error thrown and the instance after
\* the call.
SweSetSidMode(instance, mode) ==
    IF mode # SE_SIDM_FAGAN_BRADLEY /\ mode # SE_SIDM_LAHIRI
    THEN [error |-> "Invalid sidereal mode", instance |-> instance]
    ELSE [error |-> "", instance |-> [instance EXCEPT !.siderealMode = mode]]

\* null, and the object new SwissEphemeris() constructs.
Null == [null |-> TRUE, siderealMode |-> SE_SIDM_FAGAN_BRADLEY]
NewSwissEphemeris == [null |-> FALSE, siderealMode |-> SE_SIDM_FAGAN_BRADLEY]

-----------------------------------------------------------------------------
(* AstrologyEngine: synastry *)

\* planets1 / planets2 of calculateFullChartSynastry.
FullChartKeys ==
    << "sunPosition", "moonPosition", "mercuryPosition", "venusPosition",
       "marsPosition", "jupiterPosition", "saturnPosition", "uranusPosition",
       "neptunePosition", "plutoPosition", "trueNodePosition", "chironPosition",
       "fortunaPosition", "vertexPosition", "ascendantPosition", "midHeavenPosition" >>

\* planets1 / planets2 of calculateSynastryAspects.
SynastryPlanets ==
    << [name |-> "sun",       key |-> "sunPosition"],
       [name |-> "moon",      key |-> "moonPosition"],
       [name |-> "mercury",   key |-> "mercuryPosition"],
       [name |-> "venus",     key |-> "venusPosition"],
       [name |-> "mars",      key |-> "marsPosition"],
       [name |-> "jupiter",   key |-> "jupiterPosition"],
       [name |-> "saturn",    key |-> "saturnPosition"],
       [name |-> "uranus",    key |-> "uranusPosition"],
       [name |-> "neptune",   key |-> "neptunePosition"],
       [name |-> "pluto",     key |-> "plutoPosition"],
       [name |-> "ascendant", key |-> "ascendantPosition"],
       [name |-> "midheaven", key |-> "midHeavenPosition"] >>

\* planets of calculateHouseTranspositions.
TranspositionPlanets ==
    << [name |-> "Sun",     key |-> "sunPosition"],
       [name |-> "Moon",    key |-> "moonPosition"],
       [name |-> "Venus",   key |-> "venusPosition"],
       [name |-> "Mars",    key |-> "marsPosition"],
       [name |-> "Jupiter", key |-> "jupiterPosition"],
       [name |-> "Saturn",  key |-> "saturnPosition"] >>

\* [1, 5, 7, 9, 11].includes(house)
HarmoniousHouses == {1, 5, 7, 9, 11}

\* total / count as a score, 0 for an empty list (count > 0 ? total / count : 0).
Mean(total, count) == IF count > 0 THEN total * (PairLcm \div count) ELSE 0

\* Mutant: Venus and Mars are taken from the same chart.
CalculateVenusMarsSynastry_SameChart(u1, u2) ==
    Mean(CalculateAspectStrength(u1.venusPosition, u1.marsPosition)
           + CalculateAspectStrength(u2.venusPosition, u2.marsPosition), 2)

\* (venus1Mars2 + venus2Mars1) / 2
CalculateVenusMarsSynastry(u1, u2) ==
    Mean(CalculateAspectStrength(u1.venusPosition, u2.marsPosition)
           + CalculateAspectStrength(u2.venusPosition, u1.marsPosition), 2)

\* The inner loop of calculateFullChartSynastry from j on, for planets1[i].
RECURSIVE FullChartInner(_, _, _, _)
FullChartInner(u1, u2, i, j) ==
    IF j > Len(FullChartKeys) THEN 0
    ELSE CalculateAspectStrength(u1[FullChartKeys[i]], u2[FullChartKeys[j]])
           + FullChartInner(u1, u2, i, j + 1)

\* The outer loop of calculateFullChartSynastry from i on.
RECURSIVE FullChartOuter(_, _, _)
FullChartOuter(u1, u2, i) ==
    IF i > Len(FullChartKeys) THEN 0
    ELSE FullChartInner(u1, u2, i, 1) + FullChartOuter(u1, u2, i + 1)

RECURSIVE FullChartOuter_Primary(_, _, _)
FullChartOuter_Primary(u1, u2, i) ==
    IF i > 12 THEN 0
    ELSE FullChartInner(u1, u2, i, 1) + FullChartOuter_Primary(u1, u2, i + 1)

\* Mutant: planets1 holds the 12 primary bodies only, as in calculateNatalAspects.
CalculateFullChartSynastry_Primary(u1, u2) ==
    Mean(FullChartOuter_Primary(u1, u2, 1), 12 * Len(FullChartKeys))

\* totalAspects / aspectCount over all planets1[i], planets2[j].
CalculateFullChartSynastry(u1, u2) ==
    Mean(FullChartOuter(u1, u2, 1), Len(FullChartKeys) * Len(FullChartKeys))

\* The entry calculateSynastryAspects pushes for planet1, planet2.
SynastryEntry(u1, u2, planet1, planet2) ==
    LET found == FindAspect(u1[planet1.key], u2[planet2.key])
    IN  [planet1 |-> planet1.name, planet2 |-> planet2.name,
         aspect |-> found.name, orb |-> found.orb, strength |-> found.strength]

\* The inner forEach of calculateSynastryAspects for planets1[i]: the entries
\* pushed, in order.
SynastryRow(u1, u2, i) ==
    [j \in 1 .. Len(SynastryPlanets) |->
        SynastryEntry(u1, u2, SynastryPlanets[i], SynastryPlanets[j])]

\* The outer forEach from planets1[i] on.
RECURSIVE SynastryEntries(_, _, _)
SynastryEntries(u1, u2, i) ==
    IF i > Len(SynastryPlanets) THEN <<>>
    ELSE SynastryRow(u1, u2, i) \o SynastryEntries(u1, u2, i + 1)

\* totalScore: the strengths of aspects[lo..hi] added up.
RECURSIVE TotalStrength(_, _, _)
TotalStrength(aspects, lo, hi) ==
    IF lo > hi THEN 0
    ELSE IF lo = hi THEN aspects[lo].strength
    ELSE TotalStrength(aspects, lo, (lo + hi) \div 2)
           + TotalStrength(aspects, (lo + hi) \div 2 + 1, hi)

\* Mutant: only the pairings in aspect are pushed.
CalculateSynastryAspects_DropNone(u1, u2) ==
    LET aspects == SelectSeq(SynastryEntries(u1, u2, 1), LAMBDA e : e.aspect # "None")
    IN  [aspects |-> aspects,
         score |-> IF Len(aspects) > 0
                   THEN (TotalStrength(aspects, 1, Len(aspects)) * PairLcm) \div Len(aspects)
                   ELSE 0,
         count |-> Len(aspects)]

CalculateSynastryAspects(u1, u2) ==
    LET aspects == SynastryEntries(u1, u2, 1)
    IN  [aspects |-> aspects,
         score |-> Mean(TotalStrength(aspects, 1, Len(aspects)), Len(aspects)),
         count |-> Len(aspects)]

\* The transpositions pushed by planets.forEach of calculateHouseTranspositions.
Transpositions(u1, u2, user2Houses) ==
    [n \in 1 .. Len(TranspositionPlanets) |->
        [planet |-> TranspositionPlanets[n].name,
         house |-> GetPlanetHouse(u1[TranspositionPlanets[n].key], user2Houses),
         owner |-> u1.username,
         inChart |-> u2.username]]

HouseTranspositionResult(transpositions) ==
    LET harmoniousCount ==
            Cardinality({ n \in 1 .. Len(transpositions) :
                            transpositions[n].house \in HarmoniousHouses })
    IN  [transpositions |-> transpositions,
         score |-> IF Len(transpositions) > 0
                   THEN harmoniousCount * (ScoreScale \div Len(transpositions))
                   ELSE 0,
         harmoniousCount |-> harmoniousCount,
         totalPlacements |-> Len(transpositions)]

Thrown == [transpositions |-> <<>>, score |-> -1, harmoniousCount |-> -1,
           totalPlacements |-> -1]

\* Mutant: the houses are those of user1's own birth date and time.
CalculateHouseTranspositions_OwnHouses(u1, u2, coords) ==
    LET user2Houses == CalculateHouses(DateToJulianDay(u1.dateOfBirth, u1.timeOfBirth),
                                       coords)
    IN  IF user2Houses = <<>> THEN Thrown
        ELSE HouseTranspositionResult(Transpositions(u1, u2, user2Houses))

\* calculateHouseTranspositions after its await: coords is what
\* geocodeLocation(user2.placeOfBirth) resolved with.  Thrown when
\* dateToJulianDay or swe_houses throws.
CalculateHouseTranspositions(u1, u2, coords) ==
    LET user2Houses == CalculateHouses(DateToJulianDay(u2.dateOfBirth, u2.timeOfBirth),
                                       coords)
    IN  IF user2Houses = <<>> THEN Thrown
        ELSE HouseTranspositionResult(Transpositions(u1, u2, user2Houses))

\* Mutant: Venus-Mars weighs 0.5.
CompatibilityScore_HalfVenusMars(venusMars, fullChart, synastryScore, houseScore) ==
    venusMars * 5 + fullChart * 3 + synastryScore * 2 + houseScore * 1

\* (venusMarsSynastry * 0.4) + (fullChartSynastry * 0.3)
\*   + (synastryAspects.score * 0.2) + (houseTranspositions.score * 0.1),
\* in 1/(10 * ScoreScale).
CompatibilityScore(venusMars, fullChart, synastryScore, houseScore) ==
    venusMars * 4 + fullChart * 3 + synastryScore * 2 + houseScore * 1

-----------------------------------------------------------------------------
(* AstrologyEngine: geocoding.  The geocoder is an external library; what  *)
(* it answers is the environment's choice.                                 *)

\* The result lists this.geocoder.geocode(location) may resolve with: empty for
\* an unknown place, one of two for a name two towns bear.
GeocoderResults(location) ==
    IF location = "Fresno"
    THEN { << [latitude |-> 36 * Unit + 6, longitude |-> -(119 * Unit + 6),
               formattedAddress |-> "Fresno, California"] >> }
    ELSE IF location = "Sydney"
    THEN { << [latitude |-> -(33 * Unit + 7), longitude |-> 151 * Unit + 2,
               formattedAddress |-> "Sydney, New South Wales"] >>,
           << [latitude |-> 46 * Unit + 1, longitude |-> -(60 * Unit + 1),
               formattedAddress |-> "Sydney, Nova Scotia"] >> }
    ELSE IF location = "Reykjavik"
    THEN { << [latitude |-> 64 * Unit + 1, longitude |-> -(21 * Unit + 7),
               formattedAddress |-> "Reykjavik, Iceland"] >> }
    ELSE { <<>> }

\* What this.geocoder.geocode(location) may settle with: the promise rejects
\* (rejected), or resolves with a list of results.
GeocoderAnswers(location) ==
    { [rejected |-> TRUE, results |-> <<>>] } \cup
    { [rejected |-> FALSE, results |-> results] : results \in GeocoderResults(location) }

\* geocodeLocation fails when the promise rejects or results[0] is undefined.
GeocodeFails(answer) == answer.rejected \/ answer.results = <<>>

\* The result object geocodeLocation builds, caches and returns.
GeocodeResult(answer) ==
    [lat |-> answer.results[1].latitude,
     lon |-> answer.results[1].longitude,
     display_name |-> answer.results[1].formattedAddress]

\* this.geocodeCache.set(location, result)
CacheSet(cache, location, result) == (location :> result) @@ cache

\* Mutant: a cached result is returned without asking the geocoder's answer.
GeocodeLocation_CacheFirst(cache, location, answer) ==
    IF location \in DOMAIN cache
    THEN [result |-> cache[location], cache |-> cache]
    ELSE [result |-> GeocodeResult(answer),
          cache |-> CacheSet(cache, location, GeocodeResult(answer))]

\* Mutant: the cache keeps the first result stored for a location.
GeocodeLocation_KeepFirst(cache, location, answer) ==
    [result |-> GeocodeResult(answer),
     cache |-> cache @@ (location :> GeocodeResult(answer))]

\* geocodeLocation after its await, for an answer that does not fail: the
\* result returned and this.geocodeCache after the call.
GeocodeLocation(cache, location, answer) ==
    [result |-> GeocodeResult(answer),
     cache |-> CacheSet(cache, location, GeocodeResult(answer))]

-----------------------------------------------------------------------------
(* AstrologyEngine: initialize *)

\* The object new BrowserGeocoder({provider: 'openstreetmap'}) constructs.
NoGeocoder == [null |-> TRUE]
NewBrowserGeocoder == [null |-> FALSE]

\* Mutant: this.initialized = true is set as soon as SwissEphemeris is found.
Initialize_FlagBeforeGeocoder(engine, swissDefined, geocoderDefined, constructs) ==
    IF ~swissDefined THEN [engine |-> engine, thrown |-> ""]
    ELSE IF ~geocoderDefined
    THEN [engine |-> [engine EXCEPT !.sweph = NewSwissEphemeris, !.initialized = TRUE],
          thrown |-> ""]
    ELSE [engine |-> [sweph |-> NewSwissEphemeris, geocoder |-> NewBrowserGeocoder,
                      initialized |-> TRUE],
          thrown |-> ""]

\* initialize() on an engine {sweph, geocoder, initialized}.  swissDefined and
\* geocoderDefined say whether the two libraries are loaded at the call;
\* constructs says whether the constructor of the external BrowserGeocoder
\* returns (it may throw).  The result is the engine after the call and the
\* error the call ended with.
Initialize(engine, swissDefined, geocoderDefined, constructs) ==
    IF ~swissDefined THEN [engine |-> engine, thrown |-> ""]
    ELSE IF ~geocoderDefined THEN [engine |-> engine, thrown |-> ""]
    ELSE IF ~constructs
    THEN [engine |-> [engine EXCEPT !.sweph = NewSwissEphemeris],
          thrown |-> "BrowserGeocoder"]
    ELSE [engine |-> [sweph |-> SweSetSidMode(NewSwissEphemeris,
                                              SE_SIDM_FAGAN_BRADLEY).instance,
                      geocoder |-> NewBrowserGeocoder,
                      initialized |-> TRUE],
          thrown |-> ""]

-----------------------------------------------------------------------------
(* AstrologyEngine: the natal chart.  The positions of a chart are carried *)
(* on the grid of 1/Unit degree, each rounded down to it.                  *)

\* planetMap of calculatePlanetPosition with the keys of the positions object.
PlanetMap ==
    << [planet |-> "Sun",      id |-> SE_SUN,       key |-> "sunPosition"],
       [planet |-> "Moon",     id |-> SE_MOON,      key |-> "moonPosition"],
       [planet |-> "Mercury",  id |-> SE_MERCURY,   key |-> "mercuryPosition"],
       [planet |-> "Venus",    id |-> SE_VENUS,     key |-> "venusPosition"],
       [planet |-> "Mars",     id |-> SE_MARS,      key |-> "marsPosition"],
       [planet |-> "Jupiter",  id |-> SE_JUPITER,   key |-> "jupiterPosition"],
       [planet |-> "Saturn",   id |-> SE_SATURN,    key |-> "saturnPosition"],
       [planet |-> "Uranus",   id |-> SE_URANUS,    key |-> "uranusPosition"],
       [planet |-> "Neptune",  id |-> SE_NEPTUNE,   key |-> "neptunePosition"],
       [planet |-> "Pluto",    id |-> SE_PLUTO,     key |-> "plutoPosition"],
       [planet |-> "TrueNode", id |-> SE_TRUE_NODE, key |-> "trueNodePosition"],
       [planet |-> "Chiron",   id |-> SE_CHIRON,    key |-> "chironPosition"] >>

\* A longitude in 1/1000 degree on the grid of 1/Unit degree.
ToGrid(longitude) == (longitude * Unit) \div 1000

\* calculatePlanetPosition: flags = SEFLG_SWIEPH | SEFLG_SIDEREAL
CalculatePlanetPosition(n, jd, siderealMode) ==
    SweCalcUt(jd, PlanetMap[n].id, SEFLG_SWIEPH + SEFLG_SIDEREAL, siderealMode).longitude

\* referenceBirth = this.dateToJulianDay('1985-09-15', '00:24')
ReferenceBirth ==
    DateToJulianDay([year |-> 1985, month |-> 9, day |-> 15],
                    [hours |-> 0, minutes |-> 24])

\* calculateFortuna: 62.0 + 13.1763 * daysDiff, normalised.
CalculateFortuna(jd) ==
    Normalize(62000 + MulDiv(131763, jd - ReferenceBirth, 10 * JdPerDay), Circle1000)

\* calculateVertex: 207.0 + timeDiff * 0.25 + latDiff * 0.1, normalised, with
\* timeDiff = (jd - referenceBirth) * 24 and latDiff = coords.lat - 36.7378.
CalculateVertex(jd, coords) ==
    Normalize(207000 + (250 * (jd - ReferenceBirth)) \div Unit
                + ((coords.lat * 10000) \div Unit - 367378) \div 100,
              Circle1000)

\* planets of calculateNatalAspects, each with planet.replace('Position', '').
NatalPlanets ==
    << [name |-> "sun",      key |-> "sunPosition"],
       [name |-> "moon",     key |-> "moonPosition"],
       [name |-> "mercury",  key |-> "mercuryPosition"],
       [name |-> "venus",    key |-> "venusPosition"],
       [name |-> "mars",     key |-> "marsPosition"],
       [name |-> "jupiter",  key |-> "jupiterPosition"],
       [name |-> "saturn",   key |-> "saturnPosition"],
       [name |-> "uranus",   key |-> "uranusPosition"],
       [name |-> "neptune",  key |-> "neptunePosition"],
       [name |-> "pluto",    key |-> "plutoPosition"],
       [name |-> "trueNode", key |-> "trueNodePosition"],
       [name |-> "chiron",   key |-> "chironPosition"] >>

\* The entry calculateNatalAspects pushes for planets[i], planets[j].
NatalAspectEntry(positions, i, j) ==
    LET found == FindAspect(positions[NatalPlanets[i].key], positions[NatalPlanets[j].key])
    IN  [planet1 |-> NatalPlanets[i].name, planet2 |-> NatalPlanets[j].name,
         aspect |-> found.name, orb |-> found.orb, strength |-> found.strength]

\* The inner loop of calculateNatalAspects for planets[i]: j = i + 1 .. 12.
NatalAspectRow(positions, i) ==
    [k \in 1 .. (Len(NatalPlanets) - i) |-> NatalAspectEntry(positions, i, i + k)]

\* The outer loop of calculateNatalAspects from planets[i] on.
RECURSIVE NatalAspectRows(_, _)
NatalAspectRows(positions, i) ==
    IF i > Len(NatalPlanets) THEN <<>>
    ELSE NatalAspectRow(positions, i) \o NatalAspectRows(positions, i + 1)

\* Mutant: the inner loop starts at j = 0 and skips j = i.
CalculateNatalAspects_Ordered(positions) ==
    LET n == Len(NatalPlanets)
        all == [m \in 1 .. n * n |->
                   NatalAspectEntry(positions, (m - 1) \div n + 1, ((m - 1) % n) + 1)]
    IN  SelectSeq(all, LAMBDA e : e.planet1 # e.planet2)

CalculateNatalAspects(positions) == NatalAspectRows(positions, 1)

\* The lines generateNatalChartText writes under NATAL ASPECTS: one for every
\* entry of userData.natalAspects.
NatalAspectLines(userData) ==
    [k \in 1 .. Len(userData["natalAspects"]) |->
        [planet1 |-> userData["natalAspects"][k].planet1,
         aspect |-> userData["natalAspects"][k].aspect,
         planet2 |-> userData["natalAspects"][k].planet2,
         orb |-> userData["natalAspects"][k].orb]]

\* The 16 positions calculateNatalChart computes, by key.
ChartPositions(jd, coords, siderealMode) ==
    LET houseResult_ == SweHouses(jd, coords.lat, coords.lon, SE_HSYS_PLACIDUS)
    IN  [key \in { FullChartKeys[n] : n \in 1 .. Len(FullChartKeys) } |->
            IF key = "fortunaPosition" THEN ToGrid(CalculateFortuna(jd))
            ELSE IF key = "vertexPosition" THEN ToGrid(CalculateVertex(jd, coords))
            ELSE IF key = "ascendantPosition" THEN houseResult_.ascendant
            ELSE IF key = "midHeavenPosition" THEN houseResult_.mc
            ELSE LET n == CHOOSE m \in 1 .. Len(PlanetMap) : PlanetMap[m].key = key
                 IN  ToGrid(CalculatePlanetPosition(n, jd, siderealMode))]

\* The keys of the chart: the 16 positions, the house of each, natalAspects.
ChartKeys ==
    { FullChartKeys[n] : n \in 1 .. Len(FullChartKeys) }
      \cup { FullChartKeys[n] \o "House" : n \in 1 .. Len(FullChartKeys) }
      \cup { "natalAspects" }

ChartThrown == [error |-> "thrown"]

\* calculateNatalChart after its await: coords is what geocodeLocation resolved
\* with, siderealMode the mode of this.sweph.  ChartThrown when dateToJulianDay
\* or swe_houses throws.
CalculateNatalChart(dateOfBirth, timeOfBirth, coords, siderealMode) ==
    LET jd_ == DateToJulianDay(dateOfBirth, timeOfBirth)
        houses == CalculateHouses(jd_, coords)
        positions == ChartPositions(jd_, coords, siderealMode)
    IN  IF houses = <<>> THEN ChartThrown
        ELSE [key \in ChartKeys |->
                 IF key = "natalAspects" THEN CalculateNatalAspects(positions)
                 ELSE IF key \in DOMAIN positions THEN positions[key]
                 ELSE GetPlanetHouse(
                          positions[CHOOSE k \in DOMAIN positions : k \o "House" = key],
                          houses)]

-----------------------------------------------------------------------------
(* Values of the variables an operation has not written yet.  Each         *)
(* specification below drives one group of operations and leaves the       *)
(* variables of the other groups idle.                                     *)

Pending == [name |-> "<pending>", orb |-> JsNumber(0), strength |-> 0]

NoHouses == [error |-> "<pending>", houses |-> <<>>, ascendant |-> 0, mc |-> 0]

AspectIdle ==
    pos1 = 0 /\ pos2 = 0 /\ aspect = Pending /\ aspectStrength = -1

HousesIdle ==
    /\ tjd_ut = J2000 /\ geo = [lat |-> 0, lon |-> 0] /\ houseSystem = SE_HSYS_PLACIDUS
    /\ houseResult = NoHouses /\ planetPosition = 0 /\ planetHouse = 0

NoFrame == [venusMarsSynastry |-> -1, fullChartSynastry |-> -1,
            synastryAspects |-> [aspects |-> <<>>, score |-> -1, count |-> -1]]

NoCompat == [compatibilityScore |-> -1, venusMarsSynastry |-> -1,
             fullChartSynastry |-> -1,
             synastryAspects |-> [aspects |-> <<>>, score |-> -1, count |-> -1],
             houseTranspositions |-> Thrown]

NoUser ==
    [sunPosition |-> 0, moonPosition |-> 0, mercuryPosition |-> 0, venusPosition |-> 0,
     marsPosition |-> 0, jupiterPosition |-> 0, saturnPosition |-> 0,
     uranusPosition |-> 0, neptunePosition |-> 0, plutoPosition |-> 0,
     trueNodePosition |-> 0, chironPosition |-> 0, fortunaPosition |-> 0,
     vertexPosition |-> 0, ascendantPosition |-> 0, midHeavenPosition |-> 0,
     username |-> "", dateOfBirth |-> [year |-> 2000, month |-> 1, day |-> 1],
     timeOfBirth |-> [hours |-> 12, minutes |-> 0], placeOfBirth |-> ""]

CompatIdle ==
    /\ user1 = NoUser /\ user2 = NoUser /\ pc = "idle"
    /\ frame = NoFrame /\ geocodeCache = <<>> /\ compat = NoCompat

NotCalled == [error |-> "<pending>", nan |-> FALSE, value |-> 0]

JuldayIdle ==
    /\ jdCall = [year |-> Finite(2000 * Unit), month |-> Finite(Unit), day |-> Finite(Unit),
                 hour |-> Finite(12 * Unit), calendar |-> SE_GREG_CAL]
    /\ julianDay = NotCalled
    /\ dateCall = [dateStr |-> [year |-> 2000, month |-> 1, day |-> 1],
                   timeStr |-> [hours |-> 12, minutes |-> 0]]
    /\ dateJd = 0

NoSign == [sign |-> "<pending>", degreesInSign |-> 0, minutes |-> 0]

SignIdle == degrees = 0 /\ signResult = NoSign

NoCall == [fn |-> "<none>"]

\* An engine that initialize() has set up, at rest.
EngineIdle ==
    /\ swissLoaded = TRUE /\ geocoderLoaded = TRUE
    /\ sweph = NewSwissEphemeris /\ geocoder = NewBrowserGeocoder /\ initialized = TRUE
    /\ lastCall = NoCall /\ thrown = "" /\ calcResult = -1

-----------------------------------------------------------------------------
(* Specification SpecAspect: the two classifiers applied to a pair of      *)
(* longitudes.                                                             *)

InitAspect ==
    /\ pos2 \in Lons
    /\ pos1 \in Anchors \cup {pos2, 10 * Unit}
    /\ aspect = Pending
    /\ aspectStrength = -1
    /\ HousesIdle
    /\ CompatIdle
    /\ JuldayIdle /\ SignIdle /\ EngineIdle /\ calls = <<>>

FindAspectCall ==
    /\ aspect = Pending
    /\ aspect' = FindAspect(pos1, pos2)
    /\ UNCHANGED <<pos1, pos2, aspectStrength, houseVars, compatVars,
                 juldayVars, signVars, engineVars, calls>>

CalculateAspectStrengthCall ==
    /\ aspectStrength = -1
    /\ aspectStrength' = CalculateAspectStrength(pos1, pos2)
    /\ UNCHANGED <<pos1, pos2, aspect, houseVars, compatVars,
                 juldayVars, signVars, engineVars, calls>>

NextAspect == FindAspectCall \/ CalculateAspectStrengthCall

SpecAspect == InitAspect /\ [][NextAspect]_vars

-----------------------------------------------------------------------------
(* Specification SpecHouses: swe_houses for a Julian day and a place, then *)
(* getPlanetHouse of a longitude in the cusps it returned.                 *)

\* Geographic longitudes 30 degrees apart, none on a whole degree but the
\* first; the 13th lies beyond 180 degrees.
LonSamples == { (k * 30 - 180) * Unit + k : k \in 0 .. (NumLonSamples - 1) }

JdSamples == { J2000 + (k - 1) * 77777 : k \in 0 .. (NumJdSamples - 1) }

InitHouses ==
    /\ tjd_ut \in JdSamples
    /\ geo \in [lat : {36 * Unit + 6}, lon : LonSamples]
    /\ houseSystem = SE_HSYS_PLACIDUS
    /\ planetPosition \in Lons
    /\ houseResult = NoHouses
    /\ planetHouse = 0
    /\ AspectIdle
    /\ CompatIdle
    /\ JuldayIdle /\ SignIdle /\ EngineIdle /\ calls = <<>>

SweHousesCall ==
    /\ houseResult = NoHouses
    /\ houseResult' = SweHouses(tjd_ut, geo.lat, geo.lon, houseSystem)
    /\ UNCHANGED <<tjd_ut, geo, houseSystem, planetPosition, planetHouse, aspectVars, compatVars,
                 juldayVars, signVars, engineVars, calls>>

GetPlanetHouseCall ==
    /\ houseResult.error = ""
    /\ planetHouse = 0
    /\ planetHouse' = GetPlanetHouse(planetPosition, houseResult.houses)
    /\ UNCHANGED <<tjd_ut, geo, houseSystem, planetPosition, houseResult, aspectVars, compatVars,
                 juldayVars, signVars, engineVars, calls>>

NextHouses == SweHousesCall \/ GetPlanetHouseCall

SpecHouses == InitHouses /\ [][NextHouses]_vars

-----------------------------------------------------------------------------
(* Specification SpecCompat: one calculateCompatibility(user1, user2) call *)
(* on an initialised engine, for charts drawn from a family of samples.    *)

\* A stored chart: body n (counted from 0 in the order of FullChartKeys) stands
\* at seed + n * stride.
SampleChart(seed, stride, username, birth) ==
    LET at(n) == (seed + n * stride) % Circle
    IN  [sunPosition |-> at(0), moonPosition |-> at(1), mercuryPosition |-> at(2),
         venusPosition |-> at(3), marsPosition |-> at(4), jupiterPosition |-> at(5),
         saturnPosition |-> at(6), uranusPosition |-> at(7), neptunePosition |-> at(8),
         plutoPosition |-> at(9), trueNodePosition |-> at(10), chironPosition |-> at(11),
         fortunaPosition |-> at(12), vertexPosition |-> at(13),
         ascendantPosition |-> at(14), midHeavenPosition |-> at(15),
         username |-> username, dateOfBirth |-> birth.dateOfBirth,
         timeOfBirth |-> birth.timeOfBirth, placeOfBirth |-> birth.placeOfBirth]

Seeds == { k * (Circle \div NumSeeds) + k : k \in 0 .. (NumSeeds - 1) }

\* 30 degrees (every pairing in exact aspect), 23.375 degrees, 7.125 degrees.
Strides == { 30 * Unit, 23 * Unit + 3, 7 * Unit + 1 }

BirthSamples ==
    { [dateOfBirth |-> [year |-> 2000, month |-> 1, day |-> 1],
       timeOfBirth |-> [hours |-> 12, minutes |-> 0], placeOfBirth |-> "Fresno"],
      [dateOfBirth |-> [year |-> 1999, month |-> 6, day |-> 15],
       timeOfBirth |-> [hours |-> 3, minutes |-> 45], placeOfBirth |-> "Sydney"],
      [dateOfBirth |-> [year |-> 2004, month |-> 2, day |-> 29],
       timeOfBirth |-> [hours |-> 21, minutes |-> 15], placeOfBirth |-> "Reykjavik"],
      [dateOfBirth |-> [year |-> 2001, month |-> 11, day |-> 30],
       timeOfBirth |-> [hours |-> 0, minutes |-> 30], placeOfBirth |-> "Atlantis"] }

FirstBirth == CHOOSE b \in BirthSamples : b.placeOfBirth = "Fresno"

InitCompat ==
    /\ user1 \in { SampleChart(seed, stride, "A", FirstBirth) :
                     seed \in Seeds, stride \in Strides }
    /\ user2 \in { SampleChart(seed, stride, "B", birth) :
                     seed \in Seeds, stride \in Strides, birth \in BirthSamples }
    /\ pc = "start"
    /\ frame = NoFrame
    /\ geocodeCache = <<>>
    /\ compat = NoCompat
    /\ AspectIdle
    /\ HousesIdle
    /\ JuldayIdle /\ SignIdle /\ EngineIdle /\ calls = <<>>

\* calculateCompatibility up to the await inside calculateHouseTranspositions:
\* the three synchronous sub-scores, then this.geocoder.geocode is called.
CalculateCompatibilityCall ==
    /\ pc = "start"
    /\ frame' = [venusMarsSynastry |-> CalculateVenusMarsSynastry(user1, user2),
                 fullChartSynastry |-> CalculateFullChartSynastry(user1, user2),
                 synastryAspects |-> CalculateSynastryAspects(user1, user2)]
    /\ pc' = "awaitGeocode"
    /\ UNCHANGED <<user1, user2, geocodeCache, compat, aspectVars, houseVars,
                 juldayVars, signVars, engineVars, calls>>

\* The geocoder resolves with a result: geocodeLocation caches and returns it,
\* calculateHouseTranspositions and calculateCompatibility run to their end.
GeocodeResolved ==
    /\ pc = "awaitGeocode"
    /\ \E answer \in GeocoderAnswers(user2.placeOfBirth) :
         /\ ~GeocodeFails(answer)
         /\ LET coords == GeocodeResult(answer)
                houseTranspositions == CalculateHouseTranspositions(user1, user2, coords)
            IN  /\ geocodeCache' = CacheSet(geocodeCache, user2.placeOfBirth, coords)
                /\ IF houseTranspositions = Thrown
                   THEN pc' = "rejected" /\ compat' = compat
                   ELSE /\ pc' = "resolved"
                        /\ compat' =
                             [compatibilityScore |->
                                  CompatibilityScore(frame.venusMarsSynastry,
                                                     frame.fullChartSynastry,
                                                     frame.synastryAspects.score,
                                                     houseTranspositions.score),
                              venusMarsSynastry |-> frame.venusMarsSynastry,
                              fullChartSynastry |-> frame.fullChartSynastry,
                              synastryAspects |-> frame.synastryAspects,
                              houseTranspositions |-> houseTranspositions]
    /\ UNCHANGED <<user1, user2, frame, aspectVars, houseVars,
                 juldayVars, signVars, engineVars, calls>>

\* The geocoder rejects or finds nothing: geocodeLocation throws before it
\* writes the cache and calculateCompatibility rejects.
GeocodeFailed ==
    /\ pc = "awaitGeocode"
    /\ \E answer \in GeocoderAnswers(user2.placeOfBirth) : GeocodeFails(answer)
    /\ pc' = "rejected"
    /\ UNCHANGED <<user1, user2, frame, geocodeCache, compat, aspectVars, houseVars,
                 juldayVars, signVars, engineVars, calls>>

NextCompat == CalculateCompatibilityCall \/ GeocodeResolved \/ GeocodeFailed

SpecCompat == InitCompat /\ [][NextCompat]_vars

-----------------------------------------------------------------------------
(* Specification SpecCusps: swe_houses for any house system and latitude,  *)
(* then getPlanetHouse.                                                    *)

\* Geographic latitudes: the equator, both polar limits, one beyond.
LatSamples == { -(90 * Unit), 0, 36 * Unit + 6, 90 * Unit, 90 * Unit + 1 }

InitCusps ==
    /\ tjd_ut \in JdSamples
    /\ geo \in [lat : LatSamples, lon : LonSamples]
    /\ houseSystem \in HouseSystems \cup {"W"}
    /\ planetPosition \in { k * 45 * Unit + 3 : k \in 0 .. 7 }
    /\ houseResult = NoHouses
    /\ planetHouse = 0
    /\ AspectIdle
    /\ CompatIdle
    /\ JuldayIdle /\ SignIdle /\ EngineIdle /\ calls = <<>>

SpecCusps == InitCusps /\ [][NextHouses]_vars

-----------------------------------------------------------------------------
(* Specification SpecJulday: one call of swe_julday on any numbers, or one *)
(* call of dateToJulianDay on a date and a time.                           *)

\* Months 0 .. MaxMonth and days 0 .. MaxDay are tried.
MaxMonth == 13
MaxDay == 32

\* The whole numbers lo .. hi, two numbers with a fraction, and NaN.
NumberSamples(lo, hi) ==
    { Finite(k * Unit) : k \in lo .. hi }
      \cup { Finite(lo * Unit + 1), Finite(hi * Unit - 1), NaN }

YearSamples ==
    { Finite(y * Unit) : y \in {1900, 2000, 2004, 2100} }
      \cup { Finite(2000 * Unit + 1), NaN }

HourSamples ==
    { Finite(h) : h \in { -1, 0, 1, 6 * Unit + 3, 12 * Unit, 24 * Unit - 1,
                          24 * Unit, 25 * Unit } } \cup { NaN }

DateSamples ==
    { d \in [year : {1999, 2000, 2004}, month : 1 .. 12, day : 1 .. 31] :
        d.day <= (IF d.month = 2 THEN (IF d.year % 4 = 0 THEN 29 ELSE 28)
                  ELSE IF d.month \in {4, 6, 9, 11} THEN 30 ELSE 31) }

InitJulday ==
    /\ JuldayIdle
    /\ AspectIdle /\ HousesIdle /\ CompatIdle
    /\ SignIdle /\ EngineIdle /\ calls = <<>>

SweJuldayCall ==
    /\ julianDay = NotCalled /\ dateJd = 0
    /\ \E year \in YearSamples, month \in NumberSamples(0, MaxMonth),
          day \in NumberSamples(0, MaxDay), hour \in HourSamples,
          calendar \in { SE_GREG_CAL, SE_JUL_CAL, SE_GREG_CAL + 1 } :
         /\ jdCall' = [year |-> year, month |-> month, day |-> day, hour |-> hour,
                       calendar |-> calendar]
         /\ julianDay' = SweJuldayOfNumbers(year, month, day, hour, calendar)
    /\ UNCHANGED <<dateCall, dateJd, aspectVars, houseVars, compatVars, signVars,
                   engineVars, calls>>

DateToJulianDayCall ==
    /\ julianDay = NotCalled /\ dateJd = 0
    /\ \E dateStr \in DateSamples,
          timeStr \in [hours : {0, 11, 12, 23}, minutes : {0, 15, 30, 45}] :
         /\ dateCall' = [dateStr |-> dateStr, timeStr |-> timeStr]
         /\ dateJd' = DateToJulianDay(dateStr, timeStr)
    /\ UNCHANGED <<jdCall, julianDay, aspectVars, houseVars, compatVars, signVars,
                   engineVars, calls>>

NextJulday == SweJuldayCall \/ DateToJulianDayCall

SpecJulday == InitJulday /\ [][NextJulday]_vars

-----------------------------------------------------------------------------
(* Specification SpecSign: degreesToSign of any number of degrees on the   *)
(* grid, from two turns below zero to three turns above.                   *)

InitSign ==
    /\ degrees \in (-2 * Circle) .. (3 * Circle)
    /\ signResult = NoSign
    /\ AspectIdle /\ HousesIdle /\ CompatIdle
    /\ JuldayIdle /\ EngineIdle /\ calls = <<>>

DegreesToSignCall ==
    /\ signResult = NoSign
    /\ signResult' = DegreesToSign(degrees)
    /\ UNCHANGED <<degrees, aspectVars, houseVars, compatVars, juldayVars,
                   engineVars, calls>>

SpecSign == InitSign /\ [][DegreesToSignCall]_vars

-----------------------------------------------------------------------------
(* Specification SpecEngine: a new AstrologyEngine on which initialize(),  *)
(* and on its sweph swe_set_sid_mode and swe_calc_ut, are called in any    *)
(* order.                                                                  *)

\* Julian days around J2000, 1234.5 days apart.
CalcJdSamples == { J2000 + (k - 1) * (1234 * JdPerDay + JdPerDay \div 2) : k \in 0 .. 2 }

\* Body identifiers: supported ones, unsupported ones, a negative one.
PlanetSamples ==
    { -1, SE_SUN, SE_MOON, SE_PLUTO + 1, SE_TRUE_NODE, SE_CHIRON }

\* The state the constructor of AstrologyEngine leaves.
InitEngine ==
    /\ swissLoaded = FALSE /\ geocoderLoaded = FALSE
    /\ sweph = Null
    /\ geocoder = NoGeocoder
    /\ initialized = FALSE
    /\ lastCall = NoCall /\ thrown = "" /\ calcResult = -1
    /\ AspectIdle /\ HousesIdle /\ CompatIdle
    /\ JuldayIdle /\ SignIdle /\ calls = <<>>

\* initialize(), with the libraries present or absent as the page has them.
InitializeCall ==
    \E swissDefined \in BOOLEAN, geocoderDefined \in BOOLEAN, constructs \in BOOLEAN :
        LET after == Initialize([sweph |-> sweph, geocoder |-> geocoder,
                                 initialized |-> initialized],
                                swissDefined, geocoderDefined, constructs)
        IN  /\ swissLoaded' = swissDefined
            /\ geocoderLoaded' = geocoderDefined
            /\ sweph' = after.engine.sweph
            /\ geocoder' = after.engine.geocoder
            /\ initialized' = after.engine.initialized
            /\ thrown' = after.thrown
            /\ lastCall' = [fn |-> "initialize"]
            /\ UNCHANGED <<calcResult, aspectVars, houseVars, compatVars, juldayVars,
                           signVars, calls>>

\* this.sweph.swe_set_sid_mode(mode)
SweSetSidModeCall ==
    /\ ~sweph.null
    /\ \E mode \in { -1, SE_SIDM_FAGAN_BRADLEY, SE_SIDM_LAHIRI, SE_SIDM_LAHIRI + 1 } :
         /\ sweph' = SweSetSidMode(sweph, mode).instance
         /\ thrown' = SweSetSidMode(sweph, mode).error
         /\ lastCall' = [fn |-> "swe_set_sid_mode", mode |-> mode]
    /\ UNCHANGED <<swissLoaded, geocoderLoaded, geocoder, initialized, calcResult,
                   aspectVars, houseVars, compatVars, juldayVars, signVars, calls>>

\* this.sweph.swe_calc_ut(tjd_ut, planet, flags)
SweCalcUtCall ==
    /\ ~sweph.null
    /\ \E tjd \in CalcJdSamples, planet \in PlanetSamples,
          flags \in { SEFLG_SWIEPH, SEFLG_SWIEPH + SEFLG_SIDEREAL, SEFLG_SIDEREAL + 256 } :
         LET result == SweCalcUt(tjd, planet, flags, sweph.siderealMode)
         IN  /\ thrown' = result.error
             /\ calcResult' = IF result.error = "" THEN result.longitude ELSE calcResult
             /\ lastCall' = [fn |-> "swe_calc_ut", tjd_ut |-> tjd, planet |-> planet,
                             flags |-> flags]
    /\ UNCHANGED <<swissLoaded, geocoderLoaded, sweph, geocoder, initialized,
                   aspectVars, houseVars, compatVars, juldayVars, signVars, calls>>

NextEngine == InitializeCall \/ SweSetSidModeCall \/ SweCalcUtCall

SpecEngine == InitEngine /\ [][NextEngine]_vars

-----------------------------------------------------------------------------
(* Specification SpecChart: two calls on one initialised engine, each a    *)
(* calculateNatalChart or a calculateCompatibility, running interleaved:   *)
(* a call runs from its start to its await of the geocoder, and from the   *)
(* geocoder's answer to its end, without interruption.                     *)

Calls == {1, 2}

NoAnswer == [rejected |-> FALSE, results |-> <<>>]

NoResult == [error |-> "<pending>"]

\* A stored user: the chart calculateNatalChart returned for the birth data,
\* with the profile fields calculateCompatibility reads.
StoredUser(username, birth, coords) ==
    CalculateNatalChart(birth.dateOfBirth, birth.timeOfBirth, coords,
                        SE_SIDM_FAGAN_BRADLEY)
      @@ [username |-> username, dateOfBirth |-> birth.dateOfBirth,
          timeOfBirth |-> birth.timeOfBirth, placeOfBirth |-> birth.placeOfBirth]

\* The coordinates the geocoder first answers with for a place.
KnownCoords(place) ==
    GeocodeResult(CHOOSE answer \in GeocoderAnswers(place) :
                      ~GeocodeFails(answer)
                        /\ \A other \in GeocoderAnswers(place) :
                              GeocodeFails(other)
                                \/ other.results[1].latitude >= answer.results[1].latitude)

\* calculateNatalChart(birth...) and calculateCompatibility(u1, u2), not begun.
NatalChartCall(birth) ==
    [kind |-> "natal", birth |-> birth, user1 |-> NoUser, user2 |-> NoUser,
     pc |-> "start", frame |-> NoFrame, answer |-> NoAnswer, result |-> NoResult]

CompatibilityCall(u1, u2) ==
    [kind |-> "compat", birth |-> FirstBirth, user1 |-> u1, user2 |-> u2,
     pc |-> "start", frame |-> NoFrame, answer |-> NoAnswer, result |-> NoResult]

CallSamples ==
    { NatalChartCall(birth) : birth \in BirthSamples }
      \cup { CompatibilityCall(StoredUser("A", FirstBirth, KnownCoords("Fresno")),
                               StoredUser("B", birth, KnownCoords(birth.placeOfBirth))) :
               birth \in { b \in BirthSamples :
                             b.placeOfBirth \in {"Sydney", "Reykjavik"} } }

\* The place a call asks the geocoder for.
PlaceOf(call) ==
    IF call.kind = "natal" THEN call.birth.placeOfBirth ELSE call.user2.placeOfBirth

\* A call from its start to its await: calculateNatalChart awaits at once,
\* calculateCompatibility after its three synchronous sub-scores.
Begun(call) ==
    IF call.kind = "natal"
    THEN [call EXCEPT !.pc = "awaitGeocode"]
    ELSE [call EXCEPT
             !.pc = "awaitGeocode",
             !.frame = [venusMarsSynastry |->
                            CalculateVenusMarsSynastry(call.user1, call.user2),
                        fullChartSynastry |->
                            CalculateFullChartSynastry(call.user1, call.user2),
                        synastryAspects |->
                            CalculateSynastryAspects(call.user1, call.user2)]]

\* Mutant: calculateCompatibility sorts user2's natalAspects in place, which
\* here puts the last entry first.
Resumed_ReordersNatalAspects(call, coords, siderealMode) ==
    LET old == call.user2["natalAspects"]
    IN  IF call.kind = "natal" THEN [call EXCEPT !.pc = "rejected"]
        ELSE
        [call EXCEPT
            !.pc = "resolved",
            !.user2 = ("natalAspects" :>
                           (<<old[Len(old)]>> \o SubSeq(old, 1, Len(old) - 1)))
                        @@ call.user2]

\* A call from the coordinates geocodeLocation returned to its end.
Resumed(call, coords, siderealMode) ==
    IF call.kind = "natal"
    THEN LET chart == CalculateNatalChart(call.birth.dateOfBirth, call.birth.timeOfBirth,
                                          coords, siderealMode)
         IN  IF chart = ChartThrown
             THEN [call EXCEPT !.pc = "rejected"]
             ELSE [call EXCEPT !.pc = "resolved", !.result = chart]
    ELSE LET houseTranspositions ==
                 CalculateHouseTranspositions(call.user1, call.user2, coords)
         IN  IF houseTranspositions = Thrown
             THEN [call EXCEPT !.pc = "rejected"]
             ELSE [call EXCEPT
                      !.pc = "resolved",
                      !.result =
                          [compatibilityScore |->
                               CompatibilityScore(call.frame.venusMarsSynastry,
                                                  call.frame.fullChartSynastry,
                                                  call.frame.synastryAspects.score,
                                                  houseTranspositions.score),
                           venusMarsSynastry |-> call.frame.venusMarsSynastry,
                           fullChartSynastry |-> call.frame.fullChartSynastry,
                           synastryAspects |-> call.frame.synastryAspects,
                           houseTranspositions |-> houseTranspositions]]

InitChart ==
    /\ calls \in [Calls -> CallSamples]
    /\ geocodeCache = <<>>
    /\ swissLoaded = TRUE /\ geocoderLoaded = TRUE
    /\ sweph \in { SweSetSidMode(NewSwissEphemeris, mode).instance :
                      mode \in {SE_SIDM_FAGAN_BRADLEY, SE_SIDM_LAHIRI} }
    /\ geocoder = NewBrowserGeocoder /\ initialized = TRUE
    /\ lastCall = NoCall /\ thrown = "" /\ calcResult = -1
    /\ user1 = NoUser /\ user2 = NoUser /\ pc = "idle"
    /\ frame = NoFrame /\ compat = NoCompat
    /\ AspectIdle /\ HousesIdle /\ JuldayIdle /\ SignIdle

\* Call p runs to its await.
Begin(p) ==
    /\ calls[p].pc = "start"
    /\ calls' = [calls EXCEPT ![p] = Begun(calls[p])]
    /\ UNCHANGED <<geocodeCache, user1, user2, pc, frame, compat, aspectVars, houseVars,
                   juldayVars, signVars, engineVars>>

\* The geocoder resolves the request of call p with a result: geocodeLocation
\* caches and returns it, and the call runs to its end.
GeocodeResolves(p) ==
    /\ calls[p].pc = "awaitGeocode"
    /\ \E answer \in GeocoderAnswers(PlaceOf(calls[p])) :
         /\ ~GeocodeFails(answer)
         /\ LET located == GeocodeLocation(geocodeCache, PlaceOf(calls[p]), answer)
            IN  /\ geocodeCache' = located.cache
                /\ calls' = [calls EXCEPT
                                ![p] = Resumed([calls[p] EXCEPT !.answer = answer],
                                               located.result, sweph.siderealMode)]
    /\ UNCHANGED <<user1, user2, pc, frame, compat, aspectVars, houseVars,
                   juldayVars, signVars, engineVars>>

\* The geocoder rejects the request of call p or finds nothing:
\* geocodeLocation throws before it writes the cache, and the call rejects.
GeocodeRejects(p) ==
    /\ calls[p].pc = "awaitGeocode"
    /\ \E answer \in GeocoderAnswers(PlaceOf(calls[p])) :
         /\ GeocodeFails(answer)
         /\ calls' = [calls EXCEPT ![p] = [@ EXCEPT !.answer = answer, !.pc = "rejected"]]
    /\ UNCHANGED <<geocodeCache, user1, user2, pc, frame, compat, aspectVars, houseVars,
                   juldayVars, signVars, engineVars>>

NextChart == \E p \in Calls : Begin(p) \/ GeocodeResolves(p) \/ GeocodeRejects(p)

SpecChart == InitChart /\ [][NextChart]_vars

-----------------------------------------------------------------------------
(* Claims about the aspect classifier, checked under SpecAspect *)

\* Indices of the findAspect table whose window holds the folded angle.
WindowsHolding(angle) ==
    { i \in 1 .. Len(FindAspectTable) :
        /\ angle >= (FindAspectTable[i].angle - FindAspectTable[i].orb) * Unit
        /\ angle <= (FindAspectTable[i].angle + FindAspectTable[i].orb) * Unit }

FirstWindow(angle) ==
    CHOOSE i \in WindowsHolding(angle) : \A j \in WindowsHolding(angle) : i <= j

\* name and strength are those of the first catalog entry whose orb holds the
\* folded angle: strength = baseStrength * (1 - orb / maxOrb).
NameAndStrengthOfFirstWindow ==
    LET angle == FoldedAngle(pos1, pos2)
        e == FindAspectTable[FirstWindow(angle)]
        d == Abs(angle - e.angle * Unit)
    IN  /\ aspect.name = e.name
        /\ aspect.strength * 10 * e.orb * Unit
             = e.strength * (e.orb * Unit - d) * StrengthScale

\* C4 as stated: within an orb, findAspect returns the first entry's name, the
\* number |angle - exactAngle| as orb and the tapered strength; classify(10, 70)
\* is {name: 'Sextile', orb: 0, strength: 0.8}.
C4_Original ==
    (aspect # Pending /\ WindowsHolding(FoldedAngle(pos1, pos2)) # {}) =>
        LET angle == FoldedAngle(pos1, pos2)
            e == FindAspectTable[FirstWindow(angle)]
        IN  /\ NameAndStrengthOfFirstWindow
            /\ aspect.orb = JsNumber(Abs(angle - e.angle * Unit))
            /\ (pos1 = 10 * Unit /\ pos2 = 70 * Unit) =>
                   aspect = [name |-> "Sextile", orb |-> JsNumber(0),
                             strength |-> (8 * StrengthScale) \div 10]

\* C4 amended: as C4, but orb is the string |angle - exactAngle|.toFixed(2),
\* the difference rounded to hundredths and written with two fraction digits;
\* classify(10, 70) is {name: 'Sextile', orb: '0.00', strength: 0.8}.
C4_Amended ==
    (aspect # Pending /\ WindowsHolding(FoldedAngle(pos1, pos2)) # {}) =>
        LET angle == FoldedAngle(pos1, pos2)
            e == FindAspectTable[FirstWindow(angle)]
            d == Abs(angle - e.angle * Unit)
            h == CHOOSE n \in 0 .. 900 : 2 * Abs(n * Unit - 100 * d) <= Unit
                                         /\ 2 * ((n + 1) * Unit - 100 * d) > Unit
        IN  /\ NameAndStrengthOfFirstWindow
            /\ aspect.orb.type = "string"
            /\ aspect.orb.text = ToString(h \div 100) \o "." \o ToString((h % 100) \div 10)
                                   \o ToString(h % 10)
            /\ (pos1 = 10 * Unit /\ pos2 = 70 * Unit) =>
                   aspect = [name |-> "Sextile", orb |-> JsString("0.00"),
                             strength |-> (8 * StrengthScale) \div 10]

\* The worked example classify(10, 70).
C4_Witness ==
    aspect # Pending /\ pos1 = 10 * Unit /\ pos2 = 70 * Unit /\ aspect.name = "Sextile"

\* C5: findAspect is symmetric: findAspect(a, b) and findAspect(b, a) return
\* the same name, orb and strength.
C5_Symmetric ==
    aspect # Pending => aspect = FindAspect(pos2, pos1)

\* Two different longitudes more than 180 degrees apart, in aspect.
C5_Witness ==
    /\ aspect # Pending /\ aspect.name = "Sextile"
    /\ pos1 - pos2 > Circle \div 2

\* C6: findAspect(a, a) is a Conjunction of strength exactly 1.0.
C6_SelfConjunction ==
    (aspect # Pending /\ pos1 = pos2) =>
        aspect.name = "Conjunction" /\ aspect.strength = StrengthScale

C6_Witness ==
    aspect # Pending /\ pos1 = pos2 /\ pos1 = 123 * Unit + 1

\* C7: findAspect returns {name: 'None', orb: 0, strength: 0} exactly when the
\* folded angle lies outside every window [exactAngle - maxOrb, exactAngle +
\* maxOrb] of the 8 entries; findAspect(0, 100) is None.
C7_NoneIffOutsideWindows ==
    aspect # Pending =>
        /\ (aspect = NoAspect) <=> (WindowsHolding(FoldedAngle(pos1, pos2)) = {})
        /\ (aspect.name = "None") <=> (aspect = NoAspect)
        /\ (pos1 = 0 /\ pos2 = 100 * Unit) => aspect = NoAspect

\* The worked example classify(0, 100).
C7_Witness ==
    aspect = NoAspect /\ pos1 = 0 /\ pos2 = 100 * Unit

-----------------------------------------------------------------------------
(* Claims about the house of a position, checked under SpecHouses *)

\* p lies in the half-open arc of the circle from cusp `from` up to cusp `to`.
InArc(p, from, to) == (p - from) % Circle < (to - from) % Circle

\* The houses whose arc [cusps[i], cusps[i + 1 mod 12]) holds p.
ArcsHolding(p, cusps) ==
    { h \in 1 .. 12 : InArc(p, cusps[h], cusps[IF h = 12 THEN 1 ELSE h + 1]) }

\* C8: for every longitude p and every cusp list swe_houses returns,
\* getPlanetHouse returns the index in 1..12 of the one half-open arc
\* [cusps[i], cusps[i + 1 mod 12]) that holds p; exactly one arc holds p, and
\* the final 'return 1' is never reached.
C8_ExactlyOneHouse ==
    (houseResult.error = "" /\ planetHouse # 0) =>
        /\ Len(houseResult.houses) = 12
        /\ \A h \in 1 .. 12 : houseResult.houses[h] \in Lons
        /\ ArcsHolding(planetPosition, houseResult.houses) = {planetHouse}
        /\ ScanHouses(planetPosition, houseResult.houses, 1) # 0

\* A position below the next cusp in the arc that wraps through 360, which is
\* not the first house.
C8_Witness ==
    /\ houseResult.error = "" /\ planetHouse \in 2 .. 12
    /\ houseResult.houses[planetHouse]
         > houseResult.houses[IF planetHouse = 12 THEN 1 ELSE planetHouse + 1]
    /\ planetPosition < houseResult.houses[planetHouse]

-----------------------------------------------------------------------------
(* Claims about calculateCompatibility, checked under SpecCompat *)

\* f[lo] + ... + f[hi]
RECURSIVE SumRange(_, _, _)
SumRange(f, lo, hi) ==
    IF lo > hi THEN 0
    ELSE IF lo = hi THEN f[lo]
    ELSE SumRange(f, lo, (lo + hi) \div 2) + SumRange(f, (lo + hi) \div 2 + 1, hi)

\* The 16 body positions of a chart.
AllBodies ==
    << "sun", "moon", "mercury", "venus", "mars", "jupiter", "saturn", "uranus",
       "neptune", "pluto", "trueNode", "chiron", "fortuna", "vertex", "ascendant",
       "midHeaven" >>

PositionOf(user, body) == user[body \o "Position"]

\* C1 as stated: the Venus-Mars sub-score is the average of the findAspect
\* (8-entry catalog) strengths of A.venus with B.mars and of B.venus with A.mars.
C1_Original ==
    pc = "resolved" =>
        compat.venusMarsSynastry * 2
          = (FindAspect(user1.venusPosition, user2.marsPosition).strength
             + FindAspect(user2.venusPosition, user1.marsPosition).strength) * PairLcm

\* C1 amended: the Venus-Mars sub-score is the average of the
\* calculateAspectStrength strengths of A.venus with B.mars and of B.venus with
\* A.mars, where calculateAspectStrength scans the 5 major aspects only
\* (Conjunction, Sextile, Square, Trine, Opposition): a Semisextile,
\* Sesquiquadrate or Quincunx contributes 0.
C1_Amended ==
    pc = "resolved" =>
        compat.venusMarsSynastry * 2
          = (CalculateAspectStrength(user1.venusPosition, user2.marsPosition)
             + CalculateAspectStrength(user2.venusPosition, user1.marsPosition)) * PairLcm

\* Both directions are in a major aspect, of different strengths.
C1_Witness ==
    /\ pc = "resolved"
    /\ CalculateAspectStrength(user1.venusPosition, user2.marsPosition) > 0
    /\ CalculateAspectStrength(user2.venusPosition, user1.marsPosition) > 0
    /\ CalculateAspectStrength(user1.venusPosition, user2.marsPosition)
         # CalculateAspectStrength(user2.venusPosition, user1.marsPosition)

\* The 256 cross-pairings of the 16 positions, numbered row by row.
CrossStrengths(strengthOf(_, _)) ==
    [n \in 1 .. 256 |->
        strengthOf(PositionOf(user1, AllBodies[(n - 1) \div 16 + 1]),
                   PositionOf(user2, AllBodies[((n - 1) % 16) + 1]))]

FindAspectStrength(p1, p2) == FindAspect(p1, p2).strength

\* C2 as stated: the full-chart sub-score is the mean, over all 256 ordered
\* cross-pairings of the 16 positions, of the findAspect (8-entry catalog)
\* strength.
C2_Original ==
    pc = "resolved" =>
        compat.fullChartSynastry * 256
          = SumRange(CrossStrengths(FindAspectStrength), 1, 256) * PairLcm

\* C2 amended: the full-chart sub-score is the mean, over all 256 ordered
\* cross-pairings of the 16 positions (none excluded), of the
\* calculateAspectStrength strength, which scans the 5 major aspects only; a
\* pairing in no major aspect contributes 0.
C2_Amended ==
    pc = "resolved" =>
        compat.fullChartSynastry * 256
          = SumRange(CrossStrengths(CalculateAspectStrength), 1, 256) * PairLcm

\* Vertex of A with Fortuna of B and a same-body pairing both contribute.
C2_Witness ==
    /\ pc = "resolved"
    /\ CalculateAspectStrength(user1.vertexPosition, user2.fortunaPosition) > 0
    /\ CalculateAspectStrength(user1.sunPosition, user2.sunPosition) > 0
    /\ CalculateAspectStrength(user1.sunPosition, user2.moonPosition) = 0

\* C3: the combined score is 0.4 * venusMars + 0.3 * fullChart
\* + 0.2 * synastryAspects.score + 0.1 * houseTranspositions.score; the weights
\* sum to 1.0, and the score lies in [0, 1] when the four sub-scores do.
C3_WeightedScore ==
    pc = "resolved" =>
        /\ compat.compatibilityScore
             = 4 * compat.venusMarsSynastry + 3 * compat.fullChartSynastry
               + 2 * compat.synastryAspects.score + 1 * compat.houseTranspositions.score
        /\ CompatibilityScore(1, 0, 0, 0) + CompatibilityScore(0, 1, 0, 0)
             + CompatibilityScore(0, 0, 1, 0) + CompatibilityScore(0, 0, 0, 1) = 10
        /\ ( /\ compat.venusMarsSynastry \in 0 .. ScoreScale
             /\ compat.fullChartSynastry \in 0 .. ScoreScale
             /\ compat.synastryAspects.score \in 0 .. ScoreScale
             /\ compat.houseTranspositions.score \in 0 .. ScoreScale )
           => compat.compatibilityScore \in 0 .. 10 * ScoreScale

\* Four positive sub-scores, no two alike.
C3_Witness ==
    /\ pc = "resolved"
    /\ compat.venusMarsSynastry > 0
    /\ compat.fullChartSynastry > compat.venusMarsSynastry
    /\ compat.synastryAspects.score > compat.fullChartSynastry
    /\ compat.houseTranspositions.score > compat.synastryAspects.score

\* The 6 bodies of the house overlay.
OverlayBodies == << "Sun", "Moon", "Venus", "Mars", "Jupiter", "Saturn" >>

OverlayPosition(user, body) ==
    CASE body = "Sun" -> user.sunPosition
      [] body = "Moon" -> user.moonPosition
      [] body = "Venus" -> user.venusPosition
      [] body = "Mars" -> user.marsPosition
      [] body = "Jupiter" -> user.jupiterPosition
      [] body = "Saturn" -> user.saturnPosition

\* The ascendant of chart B for the place the geocoder found: the local
\* sidereal time of B's birth date and time at that longitude.
AscendantOfB ==
    CalculateLocalSiderealTime(DateToJulianDay(user2.dateOfBirth, user2.timeOfBirth),
                               geocodeCache[user2.placeOfBirth].lon)

\* The house of B, 30 degrees wide from B's ascendant on, that holds p.
HouseOfB(p) == ((p - AscendantOfB) % Circle) \div (30 * Unit) + 1

\* C9: the house-overlay sub-score is computed over exactly Sun, Moon, Venus,
\* Mars, Jupiter, Saturn of chart A; each is given the house of chart B that
\* holds it, B's cusps being recomputed from B's own date, time and geocoded
\* place; the score is (number of the 6 in a house of {1,5,7,9,11}) / 6.
C9_HouseOverlay ==
    pc = "resolved" =>
        LET overlay == compat.houseTranspositions
        IN  /\ user2.placeOfBirth \in DOMAIN geocodeCache
            /\ geocodeCache[user2.placeOfBirth]
                 \in { GeocodeResult(answer) :
                         answer \in { a \in GeocoderAnswers(user2.placeOfBirth) :
                                        ~GeocodeFails(a) } }
            /\ Len(overlay.transpositions) = 6
            /\ overlay.totalPlacements = 6
            /\ \A n \in 1 .. 6 :
                 /\ overlay.transpositions[n].planet = OverlayBodies[n]
                 /\ overlay.transpositions[n].house
                      = HouseOfB(OverlayPosition(user1, OverlayBodies[n]))
            /\ overlay.harmoniousCount
                 = Cardinality({ n \in 1 .. 6 :
                     HouseOfB(OverlayPosition(user1, OverlayBodies[n])) \in {1, 5, 7, 9, 11} })
            /\ overlay.score * 6 = overlay.harmoniousCount * ScoreScale
            /\ overlay.harmoniousCount \in 0 .. 6

\* Some but not all of the 6 fall in a harmonious house of a chart B born at
\* another time and place than A.
C9_Witness ==
    /\ pc = "resolved"
    /\ compat.houseTranspositions.harmoniousCount \in 1 .. 5
    /\ user2.dateOfBirth # user1.dateOfBirth
    /\ user2.placeOfBirth # user1.placeOfBirth

\* The 12 points of the synastry aspects: name and position key.
SynastryPoints ==
    << <<"sun", "sunPosition">>, <<"moon", "moonPosition">>,
       <<"mercury", "mercuryPosition">>, <<"venus", "venusPosition">>,
       <<"mars", "marsPosition">>, <<"jupiter", "jupiterPosition">>,
       <<"saturn", "saturnPosition">>, <<"uranus", "uranusPosition">>,
       <<"neptune", "neptunePosition">>, <<"pluto", "plutoPosition">>,
       <<"ascendant", "ascendantPosition">>, <<"midheaven", "midHeavenPosition">> >>

\* findAspect for the n-th of the 144 cross-pairings, numbered row by row.
PairingAspect(n) ==
    FindAspect(user1[SynastryPoints[(n - 1) \div 12 + 1][2]],
               user2[SynastryPoints[((n - 1) % 12) + 1][2]])

\* C10: the synastry-aspect sub-score is the mean findAspect strength (8-entry
\* catalog, 'None' counted as 0) over exactly the 144 cross-pairings of Sun..Pluto,
\* Ascendant and Midheaven of A with the same 12 points of B; TrueNode, Chiron,
\* Fortuna and Vertex take part in no pairing; the aspect list has 144 entries.
C10_SynastryAspects ==
    pc = "resolved" =>
        LET synastry == compat.synastryAspects
        IN  /\ Len(synastry.aspects) = 144
            /\ synastry.count = 144
            /\ \A n \in 1 .. 144 :
                 /\ synastry.aspects[n].planet1 = SynastryPoints[(n - 1) \div 12 + 1][1]
                 /\ synastry.aspects[n].planet2 = SynastryPoints[((n - 1) % 12) + 1][1]
                 /\ synastry.aspects[n].aspect = PairingAspect(n).name
                 /\ synastry.aspects[n].orb = PairingAspect(n).orb
                 /\ synastry.aspects[n].strength = PairingAspect(n).strength
            /\ synastry.score * 144
                 = SumRange([n \in 1 .. 144 |-> PairingAspect(n).strength], 1, 144) * PairLcm

\* A list with a pairing in no aspect and a pairing in a minor aspect.
C10_Witness ==
    /\ pc = "resolved"
    /\ compat.synastryAspects.score > 0
    /\ \E n \in 1 .. 144 : compat.synastryAspects.aspects[n].aspect = "None"
    /\ \E n \in 1 .. 144 : compat.synastryAspects.aspects[n].aspect = "Sesquiquadrate"

-----------------------------------------------------------------------------
(* Claims about the Julian Day, checked under SpecJulday *)

\* The call of swe_julday has returned a number for a calendar.
JuldayAccepted(result) == result.error = "" /\ ~result.nan

\* The Julian Day Number of the formula the documentation states, for the
\* Gregorian calendar: a = floor((14 - month)/12), y = year + 4800 - a,
\* m = month + 12a - 3, jdn = day + floor((153m + 2)/5) + 365y + floor(y/4)
\* - floor(y/100) + floor(y/400) - 32045.
StatedJdn(year, month, day) ==
    LET a == (14 - month) \div 12
        y == year + 4800 - a
        m == month + 12 * a - 3
    IN  day + (153 * m + 2) \div 5 + 365 * y + y \div 4 - y \div 100 + y \div 400 - 32045

IsLeapYear(year) == year % 4 = 0 /\ (year % 100 # 0 \/ year % 400 = 0)

DaysInMonth(year, month) ==
    IF month = 2 THEN (IF IsLeapYear(year) THEN 29 ELSE 28)
    ELSE IF month \in {4, 6, 9, 11} THEN 30 ELSE 31

RECURSIVE DaysBeforeMonth(_, _)
DaysBeforeMonth(year, month) ==
    IF month = 1 THEN 0
    ELSE DaysBeforeMonth(year, month - 1) + DaysInMonth(year, month - 1)

\* Days from 1 January 2000 to 1 January of the year, counting the leap years
\* between the two.
DaysBeforeYear(year) ==
    IF year >= 2000
    THEN 365 * (year - 2000) + Cardinality({ k \in 2000 .. year - 1 : IsLeapYear(k) })
    ELSE -(365 * (2000 - year) + Cardinality({ k \in year .. 1999 : IsLeapYear(k) }))

\* Days from 1 January 2000 to a date of the Gregorian calendar.
DaysSinceJ2000(year, month, day) ==
    DaysBeforeYear(year) + DaysBeforeMonth(year, month) + (day - 1)

\* C12: for a Gregorian call that swe_julday accepts the result is
\* jdn + (hour - 12)/24 with jdn from the stated floor formula; on the dates
\* of the calendar this is the count of days from 2000-01-01 12:00 =
\* 2451545.0; dateToJulianDay, which passes hours + minutes/60, gets the
\* noon offset once.
C12_JulianDayFormula ==
    /\ (julianDay # NotCalled /\ JuldayAccepted(julianDay) /\ jdCall.calendar = SE_GREG_CAL) =>
         LET year == jdCall.year.n \div Unit
             month == jdCall.month.n \div Unit
             day == jdCall.day.n \div Unit
             hour == jdCall.hour.n
         IN  /\ julianDay.value
                   = StatedJdn(year, month, day) * JdPerDay + (hour - 12 * Unit)
             /\ day <= DaysInMonth(year, month) =>
                   julianDay.value = J2000 + DaysSinceJ2000(year, month, day) * JdPerDay
                                       + (hour - 12 * Unit)
             /\ (year = 2000 /\ month = 1 /\ day = 1 /\ hour = 12 * Unit) =>
                   julianDay.value = 2451545 * JdPerDay
    /\ dateJd # 0 =>
         LET d == dateCall.dateStr
             t == dateCall.timeStr
             hour == t.hours * Unit + (t.minutes * Unit) \div 60
         IN  /\ dateJd = StatedJdn(d.year, d.month, d.day) * JdPerDay + (hour - 12 * Unit)
             /\ dateJd = SweJuldayOfNumbers(Finite(d.year * Unit), Finite(d.month * Unit),
                                            Finite(d.day * Unit), Finite(hour),
                                            SE_GREG_CAL).value

C12_Witness ==
    /\ jdCall = [year |-> Finite(2000 * Unit), month |-> Finite(Unit), day |-> Finite(Unit),
                 hour |-> Finite(12 * Unit), calendar |-> SE_GREG_CAL]
    /\ julianDay = JuldayReturned(2451545 * JdPerDay)

StatedInvalid(call) ==
    \/ ~IsInteger(call.year) \/ ~IsInteger(call.month) \/ ~IsInteger(call.day)
    \/ ~(call.month.n \in Unit .. 12 * Unit)
    \/ ~(call.day.n \in Unit .. 31 * Unit)
    \/ call.hour.nan
    \/ ~(call.hour.n \in 0 .. 24 * Unit - 1)

\* C14 as stated: with one of the two calendars, swe_julday throws exactly
\* when the month is outside 1..12, the day outside 1..31, the hour outside
\* [0, 24) or year, month or day is no integer, and returns a Julian Day
\* otherwise.
C14_Original ==
    (julianDay # NotCalled /\ jdCall.calendar \in {SE_GREG_CAL, SE_JUL_CAL}) =>
        /\ StatedInvalid(jdCall) =>
              julianDay = JuldayThrew("Invalid date or time parameters")
        /\ ~StatedInvalid(jdCall) => JuldayAccepted(julianDay)

\* C14, what the code does: the same, except that an hour that is NaN with
\* an integer date in range is not rejected, and NaN is returned.
C14_RejectsExceptNaNHour ==
    (julianDay # NotCalled /\ jdCall.calendar \in {SE_GREG_CAL, SE_JUL_CAL}) =>
        LET dateInvalid == StatedInvalid([jdCall EXCEPT !.hour = Finite(0)])
        IN  /\ (StatedInvalid(jdCall) /\ ~(jdCall.hour.nan /\ ~dateInvalid)) =>
                  julianDay = JuldayThrew("Invalid date or time parameters")
            /\ (jdCall.hour.nan /\ ~dateInvalid) => julianDay = JuldayNaN
            /\ ~StatedInvalid(jdCall) => JuldayAccepted(julianDay)

\* swe_julday(2000, 1, 1, NaN) has returned NaN.
C14_Witness ==
    /\ jdCall = [year |-> Finite(2000 * Unit), month |-> Finite(Unit), day |-> Finite(Unit),
                 hour |-> NaN, calendar |-> SE_GREG_CAL]
    /\ julianDay = JuldayNaN

-----------------------------------------------------------------------------
(* Claim about the cusps, checked under SpecCusps *)

-----------------------------------------------------------------------------
(* Claim about the normalisation, checked under SpecSign *)

-----------------------------------------------------------------------------
(* Claims about the engine and its ephemeris, checked under SpecEngine *)

SiderealModes == { SE_SIDM_FAGAN_BRADLEY, SE_SIDM_LAHIRI }

\* C17: the stored sidereal mode is always Fagan-Bradley or Lahiri; a call of
\* swe_set_sid_mode with one of the two stores it, and with any other mode
\* throws and leaves the instance as it was; the instance initialize()
\* constructs is in Fagan-Bradley mode; a sidereal swe_calc_ut returns the
\* mean longitude less 24.9 degrees (Fagan-Bradley) or 23.8 degrees (Lahiri),
\* brought into [0, 360), and a tropical one subtracts nothing.
C17_SiderealMode ==
    /\ [](~sweph.null => sweph.siderealMode \in SiderealModes)
    /\ [][lastCall'.fn = "swe_set_sid_mode" =>
             IF lastCall'.mode \in SiderealModes
             THEN thrown' = "" /\ sweph'.siderealMode = lastCall'.mode
             ELSE thrown' = "Invalid sidereal mode" /\ sweph' = sweph]_vars
    /\ [][(lastCall'.fn = "initialize" /\ swissLoaded' /\ geocoderLoaded') =>
             (~sweph'.null /\ sweph'.siderealMode = SE_SIDM_FAGAN_BRADLEY)]_vars
    /\ [][(lastCall'.fn = "swe_calc_ut" /\ thrown' = "") =>
             LET mean == MeanLongitude(lastCall'.tjd_ut, lastCall'.planet)
                 shift == IF ~HasFlag(lastCall'.flags, SEFLG_SIDEREAL) THEN 0
                          ELSE IF sweph.siderealMode = SE_SIDM_FAGAN_BRADLEY THEN 24900
                          ELSE 23800
             IN  calcResult' = (mean - shift) % Circle1000]_vars

\* A sidereal position computed in Lahiri mode.
C17_Witness ==
    /\ lastCall.fn = "swe_calc_ut" /\ thrown = ""
    /\ HasFlag(lastCall.flags, SEFLG_SIDEREAL)
    /\ ~sweph.null /\ sweph.siderealMode = SE_SIDM_LAHIRI
    /\ calcResult = (MeanLongitude(lastCall.tjd_ut, lastCall.planet) - 23800) % Circle1000

\* C20: whenever initialized is true, sweph and geocoder are set; a call of
\* initialize() while SwissEphemeris or BrowserGeocoder is not loaded changes
\* none of sweph, geocoder and initialized; initialized never goes back from
\* true to false.
C20_Initialized ==
    /\ [](initialized => (~sweph.null /\ ~geocoder.null))
    /\ [][(lastCall'.fn = "initialize" /\ (~swissLoaded' \/ ~geocoderLoaded')) =>
             (sweph' = sweph /\ geocoder' = geocoder /\ initialized' = initialized)]_vars
    /\ [][initialized => initialized']_vars

\* An initialised engine on which initialize() ran again without
\* SwissEphemeris, after the mode was changed.
C20_Witness ==
    /\ initialized /\ lastCall.fn = "initialize" /\ ~swissLoaded
    /\ ~sweph.null /\ sweph.siderealMode = SE_SIDM_LAHIRI

-----------------------------------------------------------------------------
(* Claims about charts and concurrent calls, checked under SpecChart *)

\* The natal charts the calls have resolved with.
ResolvedCharts ==
    { calls[p].result : p \in { q \in Calls : calls[q].kind = "natal"
                                              /\ calls[q].pc = "resolved" } }

PrimaryNames == { NatalPlanets[n].name : n \in 1 .. Len(NatalPlanets) }

\* Every unordered pair of the 12 primary bodies has exactly one entry in the
\* list, in the order of the bodies, and every entry is such a pair with the
\* classification findAspect gives its two positions.
PairsClassifiedOnce(chart) ==
    LET list == chart["natalAspects"]
        n == Len(NatalPlanets)
    IN  /\ \A i \in 1 .. n, j \in 1 .. n :
              Cardinality({ k \in 1 .. Len(list) :
                              /\ list[k].planet1 = NatalPlanets[i].name
                              /\ list[k].planet2 = NatalPlanets[j].name })
                = IF i < j THEN 1 ELSE 0
        /\ \A k \in 1 .. Len(list) :
              /\ list[k].planet1 \in PrimaryNames /\ list[k].planet2 \in PrimaryNames
              /\ \E i \in 1 .. n, j \in 1 .. n :
                    /\ list[k].planet1 = NatalPlanets[i].name
                    /\ list[k].planet2 = NatalPlanets[j].name
                    /\ list[k].aspect
                         = FindAspect(chart[NatalPlanets[i].key],
                                      chart[NatalPlanets[j].key]).name

\* C11 as stated: in a chart calculateNatalChart returned, each of the 66
\* pairs of primary bodies is classified exactly once, and the list, stored
\* or written by generateNatalChartText, holds no pair classified 'None'.
C11_Original ==
    \A chart \in ResolvedCharts :
        /\ PairsClassifiedOnce(chart)
        /\ \A k \in 1 .. Len(chart["natalAspects"]) :
              chart["natalAspects"][k].aspect # "None"
        /\ \A k \in 1 .. Len(NatalAspectLines(chart)) :
              NatalAspectLines(chart)[k].aspect # "None"

\* C11, what the code does: each of the 66 pairs is classified exactly once
\* and all 66 entries are stored and written, those classified 'None' too.
C11_AllPairsKept ==
    \A chart \in ResolvedCharts :
        /\ PairsClassifiedOnce(chart)
        /\ Len(chart["natalAspects"]) = 66
        /\ Len(NatalAspectLines(chart)) = 66

\* A chart with pairs in aspect and pairs classified 'None'.
C11_Witness ==
    \E chart \in ResolvedCharts :
        /\ \E k \in 1 .. Len(chart["natalAspects"]) :
              chart["natalAspects"][k].aspect = "None"
        /\ \E k \in 1 .. Len(NatalAspectLines(chart)) :
              NatalAspectLines(chart)[k].aspect \notin {"None", "Conjunction"}

\* What a call returns when it runs alone on the engine with the geocoder
\* answer it received: its pc and result at its end.
Alone(call) ==
    Resumed(Begun([call EXCEPT !.pc = "start", !.frame = NoFrame,
                                !.result = NoResult]),
            GeocodeResult(call.answer), sweph.siderealMode)

\* C18: under every interleaving of the two calls, a call that has ended
\* resolved with the result, or rejected, as it does alone with the same
\* geocoder answer; what geocodeLocation returns to a waiting call does not
\* depend on what the cache holds; no call changes the ephemeris or its
\* sidereal mode.
C18_Independent ==
    /\ [](\A p \in Calls :
             /\ calls[p].pc = "resolved" =>
                   (Alone(calls[p]).pc = "resolved"
                      /\ calls[p].result = Alone(calls[p]).result)
             /\ calls[p].pc = "rejected" =>
                   (GeocodeFails(calls[p].answer) \/ Alone(calls[p]).pc = "rejected")
             /\ calls[p].pc = "awaitGeocode" =>
                   \A answer \in GeocoderAnswers(PlaceOf(calls[p])) :
                       GeocodeFails(answer)
                         \/ GeocodeLocation(geocodeCache, PlaceOf(calls[p]), answer).result
                              = GeocodeResult(answer))
    /\ [][sweph' = sweph]_vars

\* Two calls for the same place that the geocoder answered differently have
\* both resolved, with different results.
C18_Witness ==
    /\ calls[1].pc = "resolved" /\ calls[2].pc = "resolved"
    /\ PlaceOf(calls[1]) = PlaceOf(calls[2])
    /\ calls[1].answer # calls[2].answer
    /\ calls[1].result # calls[2].result
    /\ calls[1].kind = calls[2].kind

\* C19: no step of a call changes user1 or user2, in any field (positions,
\* houses, natalAspects, profile).
C19_InputsUnchanged ==
    [][\A p \in Calls : /\ calls'[p].user1 = calls[p].user1
                        /\ calls'[p].user2 = calls[p].user2]_vars

\* Two calculateCompatibility calls on stored charts, one returned and one
\* failed.
C19_Witness ==
    \E p \in Calls, q \in Calls :
        /\ calls[p].kind = "compat" /\ calls[p].pc = "resolved"
        /\ calls[q].kind = "compat" /\ calls[q].pc = "rejected"
        /\ Len(calls[p].user2["natalAspects"]) = 66
        /\ calls[p].user1["sunPositionHouse"] \in 1 .. 12

-----------------------------------------------------------------------------
(* Claim about the geocoding cache, checked under SpecChart *)

\* The calls whose lookup has completed with a result.
Located ==
    { p \in Calls : calls[p].pc \in {"resolved", "rejected"}
                      /\ ~GeocodeFails(calls[p].answer) }

\* C21: the step that completes a lookup with a result stores that result
\* under the location looked up and changes no other entry, so the cache
\* holds for each location the result of the lookup completed last; the step
\* that completes a lookup by a rejection or an empty list rejects the call
\* and leaves the cache as it was, as does the start of a call; the cache
\* holds entries for the locations looked up with a result and no others;
\* no call ends without the geocoder's answer, and what geocodeLocation
\* returns is built from that answer whatever the cache holds.
C21_CacheOfLastLookup ==
    /\ [][\A p \in Calls :
             (calls[p].pc = "awaitGeocode" /\ calls'[p].pc # "awaitGeocode") =>
                 IF GeocodeFails(calls'[p].answer)
                 THEN /\ geocodeCache' = geocodeCache
                      /\ calls'[p].pc = "rejected"
                      /\ calls'[p].result = NoResult
                 ELSE /\ DOMAIN geocodeCache'
                           = DOMAIN geocodeCache \cup {PlaceOf(calls[p])}
                      /\ geocodeCache'[PlaceOf(calls[p])] = GeocodeResult(calls'[p].answer)
                      /\ \A location \in DOMAIN geocodeCache \ {PlaceOf(calls[p])} :
                            geocodeCache'[location] = geocodeCache[location]]_vars
    /\ [][\A p \in Calls :
             calls[p].pc = "start" =>
                 (calls'[p].pc \in {"start", "awaitGeocode"}
                    /\ (calls'[p].pc = "awaitGeocode" => geocodeCache' = geocodeCache))]_vars
    /\ [](/\ DOMAIN geocodeCache = { PlaceOf(calls[p]) : p \in Located }
          /\ \A location \in DOMAIN geocodeCache :
                \E p \in Located : /\ PlaceOf(calls[p]) = location
                                    /\ geocodeCache[location] = GeocodeResult(calls[p].answer)
          /\ \A p \in Calls :
                calls[p].pc = "awaitGeocode" =>
                    \A answer \in GeocoderAnswers(PlaceOf(calls[p])) :
                        GeocodeFails(answer)
                          \/ GeocodeLocation(geocodeCache, PlaceOf(calls[p]), answer).result
                               = GeocodeResult(answer))

\* Two lookups of "Sydney" have completed with different results, and the
\* cache holds the Nova Scotia one.
C21_Witness ==
    /\ Located = Calls
    /\ PlaceOf(calls[1]) = "Sydney" /\ PlaceOf(calls[2]) = "Sydney"
    /\ GeocodeResult(calls[1].answer) # GeocodeResult(calls[2].answer)
    /\ DOMAIN geocodeCache = {"Sydney"}
    /\ geocodeCache["Sydney"].display_name = "Sydney, Nova Scotia"

=============================================================================
